---- MODULE Spec2Model ----
(***************************************************************************)
(* gcs-rsync: the sync/mirror engine (src/gcp/sync), its two endpoint      *)
(* adapters (fs.rs, gcs.rs), the include/exclude filter and the token      *)
(* cache of the storage client (src/gcp/storage/client.rs).                *)
(*                                                                         *)
(* Strings are sequences of one-character strings.  Option<integer> is an  *)
(* integer with None == -1.  Times are counted in ticks, TicksPerSec ticks *)
(* to the second: a filesystem keeps ticks, GCS metadata keeps seconds.    *)
(***************************************************************************)
EXTENDS Integers, Sequences, FiniteSets, TLC

VARIABLES
    rsync,       \* RSync: source, dest, restore_fs_mtime, includes, excludes
    max,         \* the bound given to try_buffer_unordered
    mirrorMode,  \* TRUE: the stream of mirror(), FALSE: the stream of sync()
    srcStore,    \* what the source endpoint holds: name -> entry
    dstStore,    \* what the destination endpoint holds: name -> entry
    run,         \* number of the current run of the stream
    phase,       \* position of the outer stream: sync_list, del_list, end
    fetched,     \* names the current listing has already read
    batch,       \* relative paths read by the listing and not yet yielded
    task,        \* the per-entry futures: [kind, path] -> task state
    delivered,   \* the items the consumer has received in this run
    oplog,       \* endpoint operations issued in this run
    launched,    \* futures made in this run: [kind, path] -> count
    panicked,    \* a task panicked (unwrap on a failed open)
    token,       \* TokenStateHolder.token: the cached Token
    clock,       \* Utc::now(), in seconds
    req,         \* the authenticated requests: id -> position in refresh_token
    issued,      \* tokens the credential provider has handed out
    includeGlobs,  \* the globs given to with_includes
    excludeGlobs,  \* the globs given to with_excludes
    probe,       \* the last path given to filter and what filter returned
    pages,       \* the pages the bucket answers objects.list with
    listState,   \* the state of the try_unfold of ObjectClient::list
    requests,    \* the ObjectsListRequests sent so far
    yielded,     \* the items the stream of ObjectClient::list has yielded
    call,        \* the last function applied, with its arguments
    ret,         \* what it returned
    tree,        \* the directory tree below the base path: path -> kind
    walkStack,   \* the state of the try_unfold of FsClient::list
    walked,      \* the items the stream of FsClient::list has yielded
    walkEnded    \* the stream of FsClient::list has ended

engineVars == <<rsync, max, mirrorMode, srcStore, dstStore, run, phase, fetched,
                batch, task, delivered, oplog, launched, panicked>>
tokenVars == <<token, clock, req, issued>>
filterVars == <<includeGlobs, excludeGlobs, probe>>
listVars == <<pages, listState, requests, yielded>>
callVars == <<call, ret>>
walkVars == <<tree, walkStack, walked, walkEnded>>

vars == <<engineVars, tokenVars, filterVars, listVars, callVars, walkVars>>

----------------------------------------------------------------------------
(* Bounds of the model *)

MaxN == 2           \* largest concurrency bound given to the driver
MaxRuns == 2        \* times the caller drives the stream, one after the other
MaxContent == 3     \* distinct file contents 1..MaxContent (0 is the empty file)
MaxTick == 3        \* latest modification time, in ticks
TicksPerSec == 2    \* sub-second resolution of the model's clock

None == -1

Contents == 1..MaxContent
Ticks == 0..MaxTick
Seconds == 0..(MaxTick \div TicksPerSec)

\* u64 length of a content and its CRC32C: contents 1 and 2 have the same
\* length and different checksums.
Size(c) == (c + 1) \div 2
Crc32c(c) == c

----------------------------------------------------------------------------
(* Strings *)

StartsWith(s, pre) ==
    /\ Len(pre) <= Len(s)
    /\ SubSeq(s, 1, Len(pre)) = pre

EndsWith(s, suf) ==
    /\ Len(suf) <= Len(s)
    /\ SubSeq(s, Len(s) - Len(suf) + 1, Len(s)) = suf

\* str::strip_prefix(..).unwrap_or(s)
StripPrefixOr(s, pre) ==
    IF StartsWith(s, pre) THEN SubSeq(s, Len(pre) + 1, Len(s)) ELSE s

\* a faulty replace: the backslashes stay
KeepBackslash(s) == s

\* str::replace('\\', "/")
ReplaceBackslash(s) == [i \in 1..Len(s) |-> IF s[i] = "\\" THEN "/" ELSE s[i]]

\* RelativePath::new: Err(EmptyRelativePathError) is [ok |-> FALSE]
RelativePathNew(path) ==
    LET p == ReplaceBackslash(StripPrefixOr(path, <<"/">>))
    IN  IF p = <<>> THEN [ok |-> FALSE, path |-> <<>>]
        ELSE [ok |-> TRUE, path |-> p]

\* Object::new(bucket, name), the bucket being non-empty
ObjectNew(name) ==
    IF name = <<>> \/ Head(name) = "."
    THEN [ok |-> FALSE, name |-> <<>>]
    ELSE [ok |-> TRUE, name |-> name]

\* ObjectPrefix::new keeps the prefix as given
ObjectPrefixNew(prefix) == prefix

\* ObjectPrefix::as_object: the object named by the relative path itself
as_object(prefix, name) == ObjectNew(name)

\* ObjectPrefix::as_relative_path
as_relative_path(prefix, name) ==
    LET pfx == IF prefix = <<>> THEN <<"/">> ELSE prefix
        path == IF EndsWith(prefix, <<"/">>) THEN StripPrefixOr(name, pfx) ELSE name
    IN  RelativePathNew(path)

----------------------------------------------------------------------------
(* Globs and the filter *)

RECURSIVE GlobMatch(_, _)
\* globset's default matcher on the tokens used here: a literal character,
\* "?" (one character) and "*" (any characters, "/" included)
GlobMatch(g, s) ==
    IF g = <<>> THEN s = <<>>
    ELSE IF Head(g) = "*"
         THEN GlobMatch(Tail(g), s) \/ (s # <<>> /\ GlobMatch(g, Tail(s)))
    ELSE IF Head(g) = "?"
         THEN s # <<>> /\ GlobMatch(Tail(g), Tail(s))
    ELSE s # <<>> /\ Head(s) = Head(g) /\ GlobMatch(Tail(g), Tail(s))

\* RSync::glob_set: Option<GlobSet>; None is [some |-> FALSE]
glob_set(globs) ==
    IF globs = <<>> THEN [some |-> FALSE, globs |-> <<>>]
    ELSE [some |-> TRUE, globs |-> globs]

\* GlobSet::matches: the indices of the globs that match
Matches(set, path) == {i \in 1..Len(set.globs) : GlobMatch(set.globs[i], path)}

\* a faulty filter: a path is admitted when either list admits it
filter_either(includes, excludes, relative_path) ==
    LET i == IF includes.some THEN ~(Matches(includes, relative_path) = {}) ELSE TRUE
        x == IF excludes.some THEN Matches(excludes, relative_path) = {} ELSE TRUE
    IN  i \/ x

\* RSync::filter
filter(includes, excludes, relative_path) ==
    LET i == IF includes.some THEN ~(Matches(includes, relative_path) = {}) ELSE TRUE
        x == IF excludes.some THEN Matches(excludes, relative_path) = {} ELSE TRUE
    IN  i /\ x

----------------------------------------------------------------------------
(* Endpoints.  An endpoint is [kind, prefix]; what it holds is a store     *)
(* name -> [content, mt].  A filesystem store is keyed by the path below   *)
(* the base path and keeps mt in ticks; a GCS store is keyed by the object *)
(* name in the bucket and keeps mt, the goog-reserved-file-mtime metadata, *)
(* in seconds or None.                                                     *)

Absent == [content |-> None, mt |-> None]

Lookup(store, name) == IF name \in DOMAIN store THEN store[name] ELSE Absent

Present(store, name) == Lookup(store, name).content # None

\* DateTime::timestamp()
Timestamp(dt) == dt \div TicksPerSec

\* Utc.timestamp_opt(secs, 0).single()
TimestampOpt(secs) == secs * TicksPerSec

\* FsClient::size_and_mt
fs_size_and_mt(store, path) ==
    LET e == Lookup(store, path)
    IN  IF e.content # None
        THEN [err |-> FALSE, dt |-> e.mt, size |-> Size(e.content)]
        ELSE [err |-> FALSE, dt |-> None, size |-> None]

NOT_FOUND == 404      \* reqwest::StatusCode::NOT_FOUND

\* a faulty mapping: every status that is not a success is a 404
success_response_all_not_found(url, response) ==
    IF response.status \div 100 = 2 THEN [tag |-> "Ok", url |-> <<>>, value |-> None]
    ELSE [tag |-> "GcsResourceNotFound", url |-> url, value |-> None]

\* StatusCode::is_success
is_success(status) == status \div 100 = 2

\* StorageClient::success_response: the response, or the error made of its
\* status; response.text is None when the body cannot be read
success_response(url, response) ==
    IF is_success(response.status) THEN [tag |-> "Ok", url |-> <<>>, value |-> None]
    ELSE IF response.status = NOT_FOUND
    THEN [tag |-> "GcsResourceNotFound", url |-> url, value |-> None]
    ELSE IF response.text = None
    THEN [tag |-> "GcsHttpNoTextError", url |-> <<>>, value |-> None]
    ELSE [tag |-> "GcsUnexpectedResponse", url |-> url, value |-> response.text]

\* the status the bucket answers a request for the object `name` with; a
\* request that fails is answered 500
object_status(store, name, fails) ==
    IF fails THEN 500
    ELSE IF Present(store, name) THEN 200
    ELSE NOT_FOUND

\* StorageClient::success_response on the answer to a request for the object
\* `name`: Ok, Err(GcsResourceNotFound) on a 404, another Err when the request
\* fails otherwise
object_response(store, name, fails) ==
    success_response(name, [status |-> object_status(store, name, fails), text |-> 1]).tag

\* GcsClient::size_and_mt, the request failing or not
gcs_size_and_mt_req(prefix, store, path, fails) ==
    LET o == as_object(prefix, path)
        entry == object_response(store, o.name, fails)
        e == Lookup(store, o.name)
    IN  IF ~o.ok THEN [err |-> TRUE, dt |-> None, size |-> None]
        ELSE IF entry = "Ok"
        THEN [err |-> FALSE,
              dt |-> IF e.mt = None THEN None ELSE TimestampOpt(e.mt),
              size |-> Size(e.content)]
        ELSE IF entry = "GcsResourceNotFound"
        THEN [err |-> FALSE, dt |-> None, size |-> None]
        ELSE [err |-> TRUE, dt |-> None, size |-> None]

\* ReaderWriterInternal::size_and_mt, the request failing or not
size_and_mt_req(ep, store, path, fails) ==
    IF ep.kind = "gcs" THEN gcs_size_and_mt_req(ep.prefix, store, path, fails)
    ELSE fs_size_and_mt(store, path)

\* ReaderWriterInternal::size_and_mt
size_and_mt(ep, store, path) == size_and_mt_req(ep, store, path, FALSE)

\* FsClient::get_crc32c
fs_get_crc32c(store, path) ==
    LET e == Lookup(store, path)
    IN  [err |-> FALSE, crc32c |-> IF e.content # None THEN Crc32c(e.content) ELSE None]

\* GcsClient::get_crc32c, the request failing or not
gcs_get_crc32c_req(prefix, store, path, fails) ==
    LET o == as_object(prefix, path)
        entry == object_response(store, o.name, fails)
    IN  IF ~o.ok THEN [err |-> TRUE, crc32c |-> None]
        ELSE IF entry = "Ok"
        THEN [err |-> FALSE, crc32c |-> Crc32c(Lookup(store, o.name).content)]
        ELSE IF entry = "GcsResourceNotFound"
        THEN [err |-> FALSE, crc32c |-> None]
        ELSE [err |-> TRUE, crc32c |-> None]

\* ReaderWriterInternal::get_crc32c, the request failing or not
get_crc32c_req(ep, store, path, fails) ==
    IF ep.kind = "gcs" THEN gcs_get_crc32c_req(ep.prefix, store, path, fails)
    ELSE fs_get_crc32c(store, path)

\* ReaderWriterInternal::get_crc32c
get_crc32c(ep, store, path) == get_crc32c_req(ep, store, path, FALSE)

\* FsClient::exists
fs_exists(store, path) == [err |-> FALSE, found |-> Present(store, path)]

\* a faulty match: every error of the request is taken for a 404
gcs_exists_absorbs_all(prefix, store, path, fails) ==
    LET o == as_object(prefix, path)
        entry == object_response(store, o.name, fails)
    IN  IF ~o.ok THEN [err |-> TRUE, found |-> FALSE]
        ELSE IF entry = "Ok" THEN [err |-> FALSE, found |-> TRUE]
        ELSE [err |-> FALSE, found |-> FALSE]

\* GcsClient::exists, the request failing or not
gcs_exists_req(prefix, store, path, fails) ==
    LET o == as_object(prefix, path)
        entry == object_response(store, o.name, fails)
    IN  IF ~o.ok THEN [err |-> TRUE, found |-> FALSE]
        ELSE IF entry = "Ok" THEN [err |-> FALSE, found |-> TRUE]
        ELSE IF entry = "GcsResourceNotFound" THEN [err |-> FALSE, found |-> FALSE]
        ELSE [err |-> TRUE, found |-> FALSE]

\* ReaderWriterInternal::exists, the request failing or not
exists_req(ep, store, path, fails) ==
    IF ep.kind = "gcs" THEN gcs_exists_req(ep.prefix, store, path, fails)
    ELSE fs_exists(store, path)

\* ReaderWriterInternal::exists
exists(ep, store, path) == exists_req(ep, store, path, FALSE)

\* FsClient::read: File::open(..).unwrap() panics when the open fails
fs_read(store, path) ==
    LET e == Lookup(store, path)
    IN  IF e.content = None THEN [panic |-> TRUE, err |-> FALSE, content |-> None]
        ELSE [panic |-> FALSE, err |-> FALSE, content |-> e.content]

\* GcsClient::read, the download failing or not: a failed download is a stream
\* whose one item is the error
gcs_read_req(prefix, store, path, fails) ==
    LET o == as_object(prefix, path)
        e == Lookup(store, o.name)
    IN  IF ~o.ok \/ object_response(store, o.name, fails) # "Ok"
        THEN [panic |-> FALSE, err |-> TRUE, content |-> None]
        ELSE [panic |-> FALSE, err |-> FALSE, content |-> e.content]

\* ReaderWriterInternal::read, the download failing or not
read_req(ep, store, path, fails) ==
    IF ep.kind = "gcs" THEN gcs_read_req(ep.prefix, store, path, fails)
    ELSE fs_read(store, path)

\* ReaderWriterInternal::read
read(ep, store, path) == read_req(ep, store, path, FALSE)

\* FsClient::_write up to File::create: the file exists and is empty
fs_create(store, path, now) == [store EXCEPT ![path] = [content |-> 0, mt |-> now]]

\* FsClient::write: the file holds the stream, its mtime is the write time
fs_write(store, path, content, now) ==
    [store EXCEPT ![path] = [content |-> content, mt |-> now]]

\* a faulty write_mtime: set_mtime is left out
fs_write_mtime_unset(store, mtime, path, content, now) ==
    [store EXCEPT ![path] = [content |-> content, mt |-> now]]

\* FsClient::write_mtime: _write, then set_mtime
fs_write_mtime(store, mtime, path, content, now) ==
    [store EXCEPT ![path] = [content |-> content, mt |-> mtime]]

\* GcsClient::write: media upload, no metadata
gcs_write(prefix, store, path, content) ==
    [store EXCEPT ![as_object(prefix, path).name] = [content |-> content, mt |-> None]]

\* a faulty write_mtime: the multipart body carries the metadata only
gcs_write_mtime_no_media(prefix, store, mtime, path, content) ==
    [store EXCEPT ![as_object(prefix, path).name] =
        [content |-> 0, mt |-> Timestamp(mtime)]]

\* GcsClient::write_mtime: multipart upload, metadata mtime.timestamp()
gcs_write_mtime(prefix, store, mtime, path, content) ==
    [store EXCEPT ![as_object(prefix, path).name] =
        [content |-> content, mt |-> Timestamp(mtime)]]

\* a faulty dispatch: the two flags of the FS arm are not both required
write_mtime_whenever_given(ep, store, mtime, set_fs_mtime, path, content, now) ==
    IF ep.kind = "gcs"
    THEN IF mtime # None THEN gcs_write_mtime(ep.prefix, store, mtime, path, content)
         ELSE gcs_write(ep.prefix, store, path, content)
    ELSE IF mtime # None
         THEN fs_write_mtime(store, mtime, path, content, now)
         ELSE fs_write(store, path, content, now)

\* ReaderWriterInternal::write, the stream being drained without error
write(ep, store, mtime, set_fs_mtime, path, content, now) ==
    IF ep.kind = "gcs"
    THEN IF mtime # None THEN gcs_write_mtime(ep.prefix, store, mtime, path, content)
         ELSE gcs_write(ep.prefix, store, path, content)
    ELSE IF mtime # None /\ set_fs_mtime
         THEN fs_write_mtime(store, mtime, path, content, now)
         ELSE fs_write(store, path, content, now)

\* FsClient::delete: remove_file fails on a missing file
fs_delete(store, path) ==
    IF Present(store, path)
    THEN [err |-> FALSE, store |-> [store EXCEPT ![path] = Absent]]
    ELSE [err |-> TRUE, store |-> store]

\* a faulty match: the 404 of the DELETE is an error like the others
gcs_delete_strict(prefix, store, path, fails) ==
    LET o == as_object(prefix, path)
        delete_result == object_response(store, o.name, fails)
    IN  IF ~o.ok THEN [err |-> TRUE, store |-> store]
        ELSE IF delete_result = "Ok"
        THEN [err |-> FALSE, store |-> [store EXCEPT ![o.name] = Absent]]
        ELSE [err |-> TRUE, store |-> store]

\* GcsClient::delete, the request failing or not: a 404 is Ok
gcs_delete_req(prefix, store, path, fails) ==
    LET o == as_object(prefix, path)
        delete_result == object_response(store, o.name, fails)
    IN  IF ~o.ok THEN [err |-> TRUE, store |-> store]
        ELSE IF delete_result = "Ok"
        THEN [err |-> FALSE, store |-> [store EXCEPT ![o.name] = Absent]]
        ELSE IF delete_result = "GcsResourceNotFound"
        THEN [err |-> FALSE, store |-> store]
        ELSE [err |-> TRUE, store |-> store]

\* ReaderWriterInternal::delete, the request failing or not
delete_req(ep, store, path, fails) ==
    IF ep.kind = "gcs" THEN gcs_delete_req(ep.prefix, store, path, fails)
    ELSE fs_delete(store, path)

\* ReaderWriterInternal::delete
delete(ep, store, path) == delete_req(ep, store, path, FALSE)

\* FsPrefix::as_relative_path: the base path is stripped
fs_as_relative_path(name) == RelativePathNew(name)

\* FsClient::list, one directory read: the files among `names`
fs_list(store, names) ==
    {fs_as_relative_path(n) : n \in {m \in names : Present(store, m)}}

\* GcsClient::list, one page: the objects among `names` under the prefix
gcs_list(prefix, store, names) ==
    {as_relative_path(prefix, n) :
        n \in {m \in names : Present(store, m) /\ StartsWith(m, prefix)}}

\* ReaderWriterInternal::list
list(ep, store, names) ==
    IF ep.kind = "gcs" THEN gcs_list(ep.prefix, store, names)
    ELSE fs_list(store, names)

----------------------------------------------------------------------------
(* The universe of names *)

NameA == <<"a">>
NamePA == <<"p", "/", "a">>
ObjectNames == {NameA, NamePA}
Prefixes == {<<>>, <<"p", "/">>}
RelPaths == ObjectNames

FsEndpoint == [kind |-> "fs", prefix |-> <<>>]
GcsEndpoint(prefix) == [kind |-> "gcs", prefix |-> ObjectPrefixNew(prefix)]
Endpoints == {FsEndpoint} \cup {GcsEndpoint(pf) : pf \in Prefixes}

\* the entries an endpoint of this kind can hold
EntriesOf(kind) ==
    IF kind = "gcs" THEN [content : Contents, mt : Seconds \cup {None}]
    ELSE [content : Contents, mt : Ticks]

----------------------------------------------------------------------------
(* The per-entry futures and the buffered-unordered driver *)

TaskIds == [kind : {"sync", "del"}, path : RelPaths]
SyncTask(p) == [kind |-> "sync", path |-> p]
DelTask(p) == [kind |-> "del", path |-> p]

Idle == [pc |-> "idle", dest_dt |-> None, dest_size |-> None, crc32c_dest |-> None,
         mtime |-> None, status |-> "", reason |-> "", stream |-> None]
Done == [Idle EXCEPT !.pc = "done"]

StreamErr == -2

\* a faulty queue: the futures of sync() are not counted
InProgressDeletes == {t \in TaskIds : t.kind = "del" /\ task[t].pc \notin {"idle", "done"}}

\* in_progress_queue of try_buffer_unordered
InProgress == {t \in TaskIds : task[t].pc \notin {"idle", "done"}}

Item(tag, reason, t) == [tag |-> tag, reason |-> reason, path |-> t.path, of |-> t.kind]
Op(t, side, op, arg) == [of |-> t.kind, path |-> t.path, side |-> side, op |-> op, arg |-> arg]

\* the status that answered the DELETE of the object of p
DeleteStatus(p, status) ==
    [of |-> "http", path |-> p, side |-> "dest", op |-> "delete", arg |-> status]

\* what source.exists(p) returned to delete_extras: Ok(true) is 1, Ok(false)
\* is 0, Err is None
ExistsAnswer(p, r) ==
    [of |-> "answer", path |-> p, side |-> "source", op |-> "exists",
     arg |-> IF r.err THEN None ELSE IF r.found THEN 1 ELSE 0]

\* the time the file system stamps a written file with
WriteTime(p, now) == [of |-> "clock", path |-> p, side |-> "dest", op |-> "now", arg |-> now]

SyncTags == {"Created", "Updated", "AlreadySynced"}
MirrorTags == {"Deleted", "NotDeleted"}

\* a faulty try_filter: every listed path survives
FilterAdmitsAll(p) == TRUE

\* self.filter(path)
Filter(p) == filter(rsync.includes, rsync.excludes, p)

\* a faulty driver: the output of the future is dropped
ReturnDropped(t, tag, reason) ==
    /\ task' = [task EXCEPT ![t] = Done]
    /\ UNCHANGED delivered

\* the future returns: its output goes to the consumer
Return(t, tag, reason) ==
    /\ task' = [task EXCEPT ![t] = Done]
    /\ delivered' = delivered \cup {Item(tag, reason, t)}

\* the future returns Err
Fail(t, reason) == Return(t, "Err", reason)

\* a faulty write_entry: the status is emitted before the transfer
BeginWriteEmits(t, mtime, tag, reason) ==
    /\ task' = [task EXCEPT ![t] = [Idle EXCEPT !.pc = "w_read", !.mtime = mtime,
                                         !.status = tag, !.reason = reason]]
    /\ delivered' = delivered \cup {Item(tag, reason, t)}

\* write_entry is entered with this mtime; the status is returned when it succeeds
BeginWrite(t, mtime, tag, reason) ==
    /\ task' = [task EXCEPT ![t] = [Idle EXCEPT !.pc = "w_read", !.mtime = mtime,
                                         !.status = tag, !.reason = reason]]
    /\ UNCHANGED delivered

Running == ~panicked

\* one read of the listing (a directory for FS, a page for GCS), pulled by the
\* driver while its queue has room
Fetch(names) ==
    /\ Running
    /\ phase \in {"sync_list", "del_list"}
    /\ batch = {}
    /\ Cardinality(InProgress) < max
    /\ names # {}
    /\ names \subseteq ObjectNames \ fetched
    /\ fetched' = fetched \cup names
    /\ IF phase = "sync_list"
       THEN /\ batch' = list(rsync.source, srcStore, names)
            /\ oplog' = oplog \cup {[of |-> "sync", path |-> <<>>, side |-> "source",
                                     op |-> "list", arg |-> None]}
       ELSE /\ batch' = list(rsync.dest, dstStore, names)
            /\ oplog' = oplog \cup {[of |-> "del", path |-> <<>>, side |-> "dest",
                                     op |-> "list", arg |-> None]}
    /\ UNCHANGED <<tokenVars, filterVars, listVars, callVars, walkVars>>
    /\ UNCHANGED <<launched, rsync, max, mirrorMode, srcStore, dstStore, run, phase, task,
                   delivered, panicked>>

\* RSync::sync: the listing yields a path; try_filter drops it or map_ok makes
\* its future, which the driver pushes on its queue
PullSync(r) ==
    /\ Running
    /\ phase = "sync_list"
    /\ r \in batch
    /\ Cardinality(InProgress) < max
    /\ batch' = batch \ {r}
    /\ IF ~r.ok
       THEN /\ delivered' = delivered \cup
                    {[tag |-> "Err", reason |-> "EmptyRelativePathError",
                      path |-> <<>>, of |-> "sync"]}
            /\ UNCHANGED <<task, launched>>
       ELSE IF Filter(r.path)
       THEN /\ task' = [task EXCEPT ![SyncTask(r.path)] = [Idle EXCEPT !.pc = "s_dst_meta"]]
            /\ launched' = [launched EXCEPT ![SyncTask(r.path)] = @ + 1]
            /\ UNCHANGED delivered
       ELSE UNCHANGED <<task, delivered, launched>>
    /\ UNCHANGED <<tokenVars, filterVars, listVars, callVars, walkVars>>
    /\ UNCHANGED <<rsync, max, mirrorMode, srcStore, dstStore, run, phase, fetched,
                   oplog, panicked>>

\* RSync::delete_extras: every listed destination path gets a future
PullDelete(r) ==
    /\ Running
    /\ phase = "del_list"
    /\ r \in batch
    /\ Cardinality(InProgress) < max
    /\ batch' = batch \ {r}
    /\ IF ~r.ok
       THEN /\ delivered' = delivered \cup
                    {[tag |-> "Err", reason |-> "EmptyRelativePathError",
                      path |-> <<>>, of |-> "del"]}
            /\ UNCHANGED <<task, launched>>
       ELSE /\ task' = [task EXCEPT ![DelTask(r.path)] = [Idle EXCEPT !.pc = "d_exists"]]
            /\ launched' = [launched EXCEPT ![DelTask(r.path)] = @ + 1]
            /\ UNCHANGED delivered
    /\ UNCHANGED <<tokenVars, filterVars, listVars, callVars, walkVars>>
    /\ UNCHANGED <<rsync, max, mirrorMode, srcStore, dstStore, run, phase, fetched,
                   oplog, panicked>>

\* the listing is exhausted: sync() ends, and in mirror() the chain goes on
\* to the stream of delete_extras()
EndList ==
    /\ Running
    /\ phase \in {"sync_list", "del_list"}
    /\ batch = {}
    /\ fetched = ObjectNames
    /\ Cardinality(InProgress) < max
    /\ phase' = IF phase = "sync_list" /\ mirrorMode THEN "del_list" ELSE "end"
    /\ fetched' = {}
    /\ UNCHANGED <<tokenVars, filterVars, listVars, callVars, walkVars>>
    /\ UNCHANGED <<launched, rsync, max, mirrorMode, srcStore, dstStore, run, batch, task,
                   delivered, oplog, panicked>>

----------------------------------------------------------------------------
(* RSync::sync_entry, one action for each await; `fails` says whether the
   request the await makes of a GCS endpoint fails with an error other than
   a 404 *)

\* a faulty match: the (None, None) arm is missing
sync_entry_crc32c_always(dt, size) ==
    IF dt # None /\ size # None THEN "s_src_meta" ELSE "c_dst_crc"

\* a faulty match: a destination with one of the two is taken for an absent one
sync_entry_partial_is_absent(dt, size) ==
    IF dt # None /\ size # None THEN "s_src_meta" ELSE "s_src_mtime"

\* sync_entry: the arm the match on the destination's (mtime, size) takes
sync_entry_match(dt, size) ==
    IF dt # None /\ size # None THEN "s_src_meta"
    ELSE IF dt = None /\ size = None THEN "s_src_mtime"
    ELSE "c_dst_crc"

\* a faulty comparison: the mtimes are compared with their sub-second part
same_instant_and_size(dest_dt, dest_size, source_dt, source_size) ==
    dest_dt = source_dt /\ dest_size = source_size

\* a faulty comparison: the mtimes are not compared
same_size(dest_dt, dest_size, source_dt, source_size) ==
    dest_size = source_size

\* sync_entry: dest_ts == source_ts && dest_size == source_size
same_mtime_and_size(dest_dt, dest_size, source_dt, source_size) ==
    Timestamp(dest_dt) = Timestamp(source_dt) /\ dest_size = source_size

\* a faulty inner match: the source mtime is not looked at
source_has_size(dt, size) == size # None

\* sync_entry: the inner match takes its (Some(source_dt), Some(source_size)) arm
source_has_both(dt, size) == dt # None /\ size # None

\* sync_entry: self.dest.size_and_mt(path).await?
SyncDestMeta(p, fails) ==
    LET t == SyncTask(p)
        r == size_and_mt_req(rsync.dest, dstStore, p, fails)
    IN  /\ Running
        /\ task[t].pc = "s_dst_meta"
        /\ oplog' = oplog \cup {Op(t, "dest", "size_and_mt", None)}
        /\ IF r.err THEN Fail(t, "StorageError")
           ELSE /\ UNCHANGED delivered
                /\ task' = [task EXCEPT ![t] =
                     [Idle EXCEPT !.pc = sync_entry_match(r.dt, r.size),
                                  !.dest_dt = r.dt, !.dest_size = r.size]]
        /\ UNCHANGED <<tokenVars, filterVars, listVars, callVars, walkVars>>
        /\ UNCHANGED <<launched, rsync, max, mirrorMode, srcStore, dstStore, run, phase,
                       fetched, batch, panicked>>

\* sync_entry, destination with size and mtime: self.source.size_and_mt(path).await?
SyncSrcMeta(p, fails) ==
    LET t == SyncTask(p)
        r == size_and_mt_req(rsync.source, srcStore, p, fails)
    IN  /\ Running
        /\ task[t].pc = "s_src_meta"
        /\ oplog' = oplog \cup {Op(t, "source", "size_and_mt", None)}
        /\ IF r.err THEN Fail(t, "StorageError")
           ELSE IF source_has_both(r.dt, r.size)
           THEN IF same_mtime_and_size(task[t].dest_dt, task[t].dest_size, r.dt, r.size)
                THEN Return(t, "AlreadySynced", "same mtime and size")
                ELSE BeginWrite(t, r.dt, "Updated", "different size or mtime")
           ELSE /\ task' = [task EXCEPT ![t] = [Idle EXCEPT !.pc = "c_dst_crc"]]
                /\ UNCHANGED delivered
        /\ UNCHANGED <<tokenVars, filterVars, listVars, callVars, walkVars>>
        /\ UNCHANGED <<launched, rsync, max, mirrorMode, srcStore, dstStore, run, phase,
                       fetched, batch, panicked>>

\* sync_entry, destination absent: let (mtime, _) = self.source.size_and_mt(path).await?
SyncSrcMtime(p, fails) ==
    LET t == SyncTask(p)
        r == size_and_mt_req(rsync.source, srcStore, p, fails)
    IN  /\ Running
        /\ task[t].pc = "s_src_mtime"
        /\ oplog' = oplog \cup {Op(t, "source", "size_and_mt", None)}
        /\ IF r.err THEN Fail(t, "StorageError")
           ELSE BeginWrite(t, r.dt, "Created", "")
        /\ UNCHANGED <<tokenVars, filterVars, listVars, callVars, walkVars>>
        /\ UNCHANGED <<launched, rsync, max, mirrorMode, srcStore, dstStore, run, phase,
                       fetched, batch, panicked>>

\* sync_entry_crc32c: self.dest.get_crc32c(path).await?
CrcDest(p, fails) ==
    LET t == SyncTask(p)
        r == get_crc32c_req(rsync.dest, dstStore, p, fails)
    IN  /\ Running
        /\ task[t].pc = "c_dst_crc"
        /\ oplog' = oplog \cup {Op(t, "dest", "get_crc32c", None)}
        /\ IF r.err THEN Fail(t, "StorageError")
           ELSE IF r.crc32c = None
           THEN BeginWrite(t, None, "Updated", "no dest crc32c")
           ELSE /\ task' = [task EXCEPT ![t] =
                        [Idle EXCEPT !.pc = "c_src_crc", !.crc32c_dest = r.crc32c]]
                /\ UNCHANGED delivered
        /\ UNCHANGED <<tokenVars, filterVars, listVars, callVars, walkVars>>
        /\ UNCHANGED <<launched, rsync, max, mirrorMode, srcStore, dstStore, run, phase,
                       fetched, batch, panicked>>

\* a faulty comparison: any source checksum passes for the destination's
any_crc32c(crc32c_dest, crc32c_source) == crc32c_source # None

\* sync_entry_crc32c: crc32c_dest == crc32c_source
same_crc32c(crc32c_dest, crc32c_source) == crc32c_dest = crc32c_source

\* sync_entry_crc32c: self.source.get_crc32c(path).await?
CrcSrc(p, fails) ==
    LET t == SyncTask(p)
        r == get_crc32c_req(rsync.source, srcStore, p, fails)
    IN  /\ Running
        /\ task[t].pc = "c_src_crc"
        /\ oplog' = oplog \cup {Op(t, "source", "get_crc32c", None)}
        /\ IF r.err THEN Fail(t, "StorageError")
           ELSE IF same_crc32c(task[t].crc32c_dest, r.crc32c)
           THEN Return(t, "AlreadySynced", "same crc32c")
           ELSE BeginWrite(t, None, "Updated", "different crc32c")
        /\ UNCHANGED <<tokenVars, filterVars, listVars, callVars, walkVars>>
        /\ UNCHANGED <<launched, rsync, max, mirrorMode, srcStore, dstStore, run, phase,
                       fetched, batch, panicked>>

\* write_entry: self.source.read(path).await
WriteRead(p, fails) ==
    LET t == SyncTask(p)
        r == read_req(rsync.source, srcStore, p, fails)
    IN  /\ Running
        /\ task[t].pc = "w_read"
        /\ oplog' = oplog \cup {Op(t, "source", "read", None)}
        /\ panicked' = r.panic
        /\ task' = [task EXCEPT ![t].stream = IF r.err THEN StreamErr ELSE r.content,
                                ![t].pc = IF rsync.dest.kind = "fs" THEN "w_create"
                                          ELSE "w_upload"]
        /\ UNCHANGED <<tokenVars, filterVars, listVars, callVars, walkVars>>
        /\ UNCHANGED <<launched, rsync, max, mirrorMode, srcStore, dstStore, run, phase,
                       fetched, batch, delivered>>

\* write_entry, FS destination: self.dest.write(..) up to File::create
WriteCreate(p, now) ==
    LET t == SyncTask(p)
    IN  /\ Running
        /\ task[t].pc = "w_create"
        /\ oplog' = oplog \cup {Op(t, "dest", "write", task[t].mtime)}
        /\ dstStore' = fs_create(dstStore, p, now)
        /\ task' = [task EXCEPT ![t].pc = "w_drain"]
        /\ UNCHANGED <<tokenVars, filterVars, listVars, callVars, walkVars>>
        /\ UNCHANGED <<launched, rsync, max, mirrorMode, srcStore, run, phase, fetched, batch,
                       delivered, panicked>>

\* write_entry, FS destination: the stream is drained, flushed, and the mtime set
WriteDrain(p, now) ==
    LET t == SyncTask(p)
    IN  /\ Running
        /\ task[t].pc = "w_drain"
        /\ IF task[t].stream = StreamErr
           THEN /\ Fail(t, "StorageError")
                /\ UNCHANGED <<dstStore, oplog>>
           ELSE /\ dstStore' = write(rsync.dest, dstStore, task[t].mtime,
                                     rsync.restore_fs_mtime, p, task[t].stream, now)
                /\ oplog' = oplog \cup {WriteTime(p, now)}
                /\ Return(t, task[t].status, task[t].reason)
        /\ UNCHANGED <<tokenVars, filterVars, listVars, callVars, walkVars>>
        /\ UNCHANGED <<launched, rsync, max, mirrorMode, srcStore, run, phase, fetched, batch,
                       panicked>>

\* write_entry, GCS destination: self.dest.write(..), one upload request
WriteUpload(p, fails) ==
    LET t == SyncTask(p)
    IN  /\ Running
        /\ task[t].pc = "w_upload"
        /\ oplog' = oplog \cup {Op(t, "dest", "write", task[t].mtime)}
        /\ IF task[t].stream = StreamErr \/ ~as_object(rsync.dest.prefix, p).ok \/ fails
           THEN /\ Fail(t, "StorageError")
                /\ UNCHANGED dstStore
           ELSE /\ dstStore' = write(rsync.dest, dstStore, task[t].mtime,
                                     rsync.restore_fs_mtime, p, task[t].stream, None)
                /\ Return(t, task[t].status, task[t].reason)
        /\ UNCHANGED <<tokenVars, filterVars, listVars, callVars, walkVars>>
        /\ UNCHANGED <<launched, rsync, max, mirrorMode, srcStore, run, phase, fetched, batch,
                       panicked>>

----------------------------------------------------------------------------
(* RSync::delete_extras, one action for each await *)

\* a faulty delete_extras: an error of source.exists is taken for Ok(false)
DelExistsUnwrapOr(p, fails) ==
    LET t == DelTask(p)
        r == exists_req(rsync.source, srcStore, p, fails)
    IN  /\ Running
        /\ task[t].pc = "d_exists"
        /\ oplog' = oplog \cup {Op(t, "source", "exists", None), ExistsAnswer(p, r)}
        /\ IF r.err \/ ~r.found \/ ~Filter(p)
           THEN /\ task' = [task EXCEPT ![t].pc = "d_delete"]
                /\ UNCHANGED delivered
           ELSE Return(t, "NotDeleted", "")
        /\ UNCHANGED <<tokenVars, filterVars, listVars, callVars, walkVars>>
        /\ UNCHANGED <<launched, rsync, max, mirrorMode, srcStore, dstStore, run, phase,
                       fetched, batch, panicked>>

\* self.source.exists(&path).await?.not() || self.filter(&path).not()
DelExists(p, fails) ==
    LET t == DelTask(p)
        r == exists_req(rsync.source, srcStore, p, fails)
    IN  /\ Running
        /\ task[t].pc = "d_exists"
        /\ oplog' = oplog \cup {Op(t, "source", "exists", None), ExistsAnswer(p, r)}
        /\ IF r.err THEN Fail(t, "StorageError")
           ELSE IF ~r.found \/ ~Filter(p)
           THEN /\ task' = [task EXCEPT ![t].pc = "d_delete"]
                /\ UNCHANGED delivered
           ELSE Return(t, "NotDeleted", "")
        /\ UNCHANGED <<tokenVars, filterVars, listVars, callVars, walkVars>>
        /\ UNCHANGED <<launched, rsync, max, mirrorMode, srcStore, dstStore, run, phase,
                       fetched, batch, panicked>>

\* a faulty delete_extras: the entry is deleted at the source
DelDeleteAtSource(p, fails) ==
    LET t == DelTask(p)
        r == delete_req(rsync.source, srcStore, p, fails)
    IN  /\ Running
        /\ task[t].pc = "d_delete"
        /\ oplog' = oplog \cup {Op(t, "source", "delete", None)}
        /\ srcStore' = r.store
        /\ IF r.err THEN Fail(t, "StorageError") ELSE Return(t, "Deleted", "")
        /\ UNCHANGED <<tokenVars, filterVars, listVars, callVars, walkVars>>
        /\ UNCHANGED <<launched, rsync, max, mirrorMode, dstStore, run, phase, fetched, batch,
                       panicked>>

\* self.dest.delete(&path).await?
DelDelete(p, fails) ==
    LET t == DelTask(p)
        r == delete_req(rsync.dest, dstStore, p, fails)
    IN  /\ Running
        /\ task[t].pc = "d_delete"
        /\ oplog' = oplog \cup {Op(t, "dest", "delete", None)} \cup
                IF rsync.dest.kind = "gcs"
                THEN {DeleteStatus(p, object_status(dstStore,
                                        as_object(rsync.dest.prefix, p).name, fails))}
                ELSE {}
        /\ dstStore' = r.store
        /\ IF r.err THEN Fail(t, IF rsync.dest.kind = "fs" THEN "FsIoError" ELSE "StorageError")
           ELSE Return(t, "Deleted", "")
        /\ UNCHANGED <<tokenVars, filterVars, listVars, callVars, walkVars>>
        /\ UNCHANGED <<launched, rsync, max, mirrorMode, srcStore, run, phase, fetched, batch,
                       panicked>>

----------------------------------------------------------------------------
(* The caller *)

RunComplete == phase = "end" /\ InProgress = {} /\ ~panicked

\* the stream has ended and the caller drives a new one, as the tests do
NextRun ==
    /\ RunComplete
    /\ run < MaxRuns
    /\ run' = run + 1
    /\ phase' = "sync_list"
    /\ fetched' = {}
    /\ batch' = {}
    /\ task' = [t \in TaskIds |-> Idle]
    /\ delivered' = {}
    /\ oplog' = {}
    /\ launched' = [t \in TaskIds |-> 0]
    /\ UNCHANGED <<tokenVars, filterVars, listVars, callVars, walkVars>>
    /\ UNCHANGED <<rsync, max, mirrorMode, srcStore, dstStore, panicked>>

----------------------------------------------------------------------------
(* The environment: the two stores are shared with other programs *)

\* a file or object of the source is removed while the run is in progress
RemovedSource(name) ==
    /\ Running
    /\ ~RunComplete
    /\ Present(srcStore, name)
    /\ srcStore' = [srcStore EXCEPT ![name] = Absent]
    /\ UNCHANGED <<tokenVars, filterVars, listVars, callVars, walkVars>>
    /\ UNCHANGED <<launched, rsync, max, mirrorMode, dstStore, run, phase, fetched, batch,
                   task, delivered, oplog, panicked>>

\* a file or object of the destination is removed while the run is in progress
RemovedDest(name) ==
    /\ Running
    /\ ~RunComplete
    /\ Present(dstStore, name)
    /\ dstStore' = [dstStore EXCEPT ![name] = Absent]
    /\ UNCHANGED <<tokenVars, filterVars, listVars, callVars, walkVars>>
    /\ UNCHANGED <<launched, rsync, max, mirrorMode, srcStore, run, phase, fetched, batch,
                   task, delivered, oplog, panicked>>

----------------------------------------------------------------------------
(* Initial states *)

GlobA == <<"a">>              \* matches "a" only
GlobStar == <<"*">>           \* matches every path
GlobPStar == <<"p", "*">>     \* matches "p/a" only

FilterConfs ==
    { [inc |-> <<>>, exc |-> <<>>],
      [inc |-> <<GlobA>>, exc |-> <<>>],
      [inc |-> <<>>, exc |-> <<GlobA>>],
      [inc |-> <<GlobStar, GlobA>>, exc |-> <<GlobPStar>>] }

\* RSync::new
new(source, dest) ==
    [source |-> source, dest |-> dest, restore_fs_mtime |-> FALSE,
     includes |-> glob_set(<<>>), excludes |-> glob_set(<<>>)]

\* RSync::with_restore_fs_mtime
with_restore_fs_mtime(self, restore_fs_mtime) ==
    [self EXCEPT !.restore_fs_mtime = restore_fs_mtime]

\* RSync::new(..).with_restore_fs_mtime(..).with_includes(..).with_excludes(..)
RSyncNew(source, dest, restore, f) ==
    [with_restore_fs_mtime(new(source, dest), restore)
        EXCEPT !.includes = glob_set(f.inc), !.excludes = glob_set(f.exc)]

StoreOf(present, entry) ==
    [n \in ObjectNames |-> IF n \in present THEN entry ELSE Absent]

InitRun ==
    /\ run = 1
    /\ phase = "sync_list"
    /\ fetched = {}
    /\ batch = {}
    /\ task = [t \in TaskIds |-> Idle]
    /\ delivered = {}
    /\ oplog = {}
    /\ launched = [t \in TaskIds |-> 0]
    /\ panicked = FALSE

\* one entry, every metadata relation between its two copies
InitEntry ==
    /\ \E sk \in {"fs", "gcs"}, dk \in {"fs", "gcs"}, restore \in BOOLEAN :
         /\ rsync = RSyncNew([kind |-> sk, prefix |-> <<>>], [kind |-> dk, prefix |-> <<>>],
                             restore, [inc |-> <<>>, exc |-> <<>>])
         /\ \E se \in EntriesOf(sk) : srcStore = StoreOf({NameA}, se)
         /\ \E de \in EntriesOf(dk) \cup {Absent} : dstStore = StoreOf({NameA}, de)
    /\ max = 1
    /\ mirrorMode = FALSE
    /\ InitRun

\* entries on either side, every endpoint pair, filter and bound
InitPipeline ==
    /\ \E source \in Endpoints, dest \in Endpoints, f \in FilterConfs, restore \in BOOLEAN :
         rsync = RSyncNew(source, dest, restore, f)
    /\ \E present \in SUBSET ObjectNames :
         srcStore = StoreOf(present, [content |-> 1, mt |-> 1])
    /\ \E present \in SUBSET ObjectNames :
         dstStore = StoreOf(present, [content |-> 2, mt |-> 0])
    /\ max \in 1..MaxN
    /\ mirrorMode \in BOOLEAN
    /\ InitRun

\* entries on either side of two endpoints that others write to, no filter
InitShared ==
    /\ \E sk \in {"fs", "gcs"}, dk \in {"fs", "gcs"} :
         rsync = new([kind |-> sk, prefix |-> <<>>], [kind |-> dk, prefix |-> <<>>])
    /\ \E present \in SUBSET ObjectNames :
         srcStore = StoreOf(present, [content |-> 1, mt |-> 1])
    /\ \E present \in SUBSET ObjectNames :
         dstStore = StoreOf(present, [content |-> 2, mt |-> 0])
    /\ max \in 1..MaxN
    /\ mirrorMode \in BOOLEAN
    /\ InitRun

\* the engine at rest, for the behaviours that do not run it
EngineUnused ==
    /\ rsync = new(FsEndpoint, FsEndpoint)
    /\ srcStore = StoreOf({}, Absent)
    /\ dstStore = StoreOf({}, Absent)
    /\ max = 1
    /\ mirrorMode = FALSE
    /\ InitRun

----------------------------------------------------------------------------
(* The token cache of the storage client: TokenStateHolder *)

ExpiryWindow == 30    \* seconds a token is refreshed ahead of its expiry
MaxClock == 2         \* seconds the clock runs
MaxLifetime == 32     \* longest expires_in the credential provider grants
MaxRequests == 2      \* authenticated requests in flight on one client
MaxIssued == 3        \* tokens the credential provider hands out
MaxShortLifetime == 1 \* longest expires_in of a token granted about to expire

Requests == 1..MaxRequests
Lifetimes == (0..MaxShortLifetime) \cup (ExpiryWindow..MaxLifetime)

\* a faulty comparison: a token at the edge of the window passes
is_valid_at_window(t, now) == t.expiry - ExpiryWindow >= now

\* Token::is_valid
is_valid(t, now) == t.expiry - ExpiryWindow > now

\* a faulty get_token: the cached token is never handed out
get_token_none(t, now) == None

\* TokenStateHolder::get_token: Some(access_token) or None
get_token(t, now) == IF is_valid(t, now) THEN t.access_token ELSE None

NoToken == [access_token |-> None, expiry |-> None]
Resting == [pc |-> "idle", t |-> NoToken, access_token |-> None]

\* the requests whose call of token_generator.get has not returned
InGet == {r \in Requests : req[r].pc = "in_get"}

\* StorageClient::with_auth: a request enters refresh_token
WithAuth(r) ==
    /\ req[r].pc \in {"idle", "done", "failed"}
    /\ req' = [req EXCEPT ![r] = [Resting EXCEPT !.pc = "call"]]
    /\ UNCHANGED <<token, clock, issued>>
    /\ UNCHANGED <<engineVars, filterVars, listVars, callVars, walkVars>>

\* refresh_token: self.get_token().await, under the read lock; a token that is
\* not valid sends the request to token_generator.get, no lock held
RefreshGetToken(r) ==
    /\ req[r].pc = "call"
    /\ LET got == get_token(token, clock)
       IN  req' = [req EXCEPT ![r] =
                IF got # None THEN [Resting EXCEPT !.pc = "done", !.access_token = got]
                ELSE [Resting EXCEPT !.pc = "in_get"]]
    /\ UNCHANGED <<token, clock, issued>>
    /\ UNCHANGED <<engineVars, filterVars, listVars, callVars, walkVars>>

\* refresh_token: token_generator.get(..).await returns a new token
GeneratorReturn(r, lifetime) ==
    /\ req[r].pc = "in_get"
    /\ issued < MaxIssued
    /\ issued' = issued + 1
    /\ req' = [req EXCEPT ![r].pc = "store",
                          ![r].t = [access_token |-> issued + 1,
                                    expiry |-> clock + lifetime]]
    /\ UNCHANGED <<token, clock>>
    /\ UNCHANGED <<engineVars, filterVars, listVars, callVars, walkVars>>

\* a faulty refresh_token: the failure empties the cache
GeneratorFailPoisons(r) ==
    /\ req[r].pc = "in_get"
    /\ req' = [req EXCEPT ![r] = [Resting EXCEPT !.pc = "failed"]]
    /\ token' = NoToken
    /\ UNCHANGED <<clock, issued>>
    /\ UNCHANGED <<engineVars, filterVars, listVars, callVars, walkVars>>

\* refresh_token: token_generator.get(..).await fails, map_err(GcsTokenError)?
GeneratorFail(r) ==
    /\ req[r].pc = "in_get"
    /\ req' = [req EXCEPT ![r] = [Resting EXCEPT !.pc = "failed"]]
    /\ UNCHANGED <<token, clock, issued>>
    /\ UNCHANGED <<engineVars, filterVars, listVars, callVars, walkVars>>

\* refresh_token: *self.token.write().await = t; Ok(access_token)
StoreToken(r) ==
    /\ req[r].pc = "store"
    /\ token' = req[r].t
    /\ req' = [req EXCEPT ![r] = [Resting EXCEPT !.pc = "done",
                                          !.access_token = req[r].t.access_token]]
    /\ UNCHANGED <<clock, issued>>
    /\ UNCHANGED <<engineVars, filterVars, listVars, callVars, walkVars>>

\* Utc::now() moves on
Tick ==
    /\ clock < MaxClock
    /\ clock' = clock + 1
    /\ UNCHANGED <<token, req, issued>>
    /\ UNCHANGED <<engineVars, filterVars, listVars, callVars, walkVars>>

\* TokenStateHolder::new: the first token is fetched before any request
InitToken ==
    /\ clock = 0
    /\ issued = 0
    /\ \E lifetime \in Lifetimes : token = [access_token |-> 0, expiry |-> lifetime]
    /\ req = [r \in Requests |-> Resting]

TokenUnused ==
    /\ clock = 0
    /\ issued = 0
    /\ token = NoToken
    /\ req = [r \in Requests |-> Resting]

----------------------------------------------------------------------------
(* The filter, on its own: with_includes, with_excludes, filter *)

MaxGlobs == 2         \* longest include or exclude list

GlobAny1 == <<"?">>           \* matches every path of one character
Globs == {GlobA, GlobStar, GlobPStar, GlobAny1}
NameB == <<"b">>
FilterPaths == {NameA, NameB, NamePA}

RECURSIVE SeqsUpTo(_, _)
SeqsUpTo(S, n) ==
    IF n = 0 THEN {<<>>}
    ELSE LET shorter == SeqsUpTo(S, n - 1)
         IN  shorter \cup {Append(q, x) : q \in shorter, x \in S}

GlobLists == SeqsUpTo(Globs, MaxGlobs)

NoProbe == [applied |-> FALSE, path |-> <<>>, result |-> FALSE]

\* RSync::with_includes
WithIncludes(globs) ==
    /\ includeGlobs' = globs
    /\ probe' = NoProbe
    /\ UNCHANGED excludeGlobs
    /\ UNCHANGED <<engineVars, tokenVars, listVars, callVars, walkVars>>

\* RSync::with_excludes
WithExcludes(globs) ==
    /\ excludeGlobs' = globs
    /\ probe' = NoProbe
    /\ UNCHANGED includeGlobs
    /\ UNCHANGED <<engineVars, tokenVars, listVars, callVars, walkVars>>

\* RSync::filter on the RSync built with these lists
ApplyFilter(path) ==
    /\ probe' = [applied |-> TRUE, path |-> path,
                 result |-> filter(glob_set(includeGlobs), glob_set(excludeGlobs), path)]
    /\ UNCHANGED <<includeGlobs, excludeGlobs>>
    /\ UNCHANGED <<engineVars, tokenVars, listVars, callVars, walkVars>>

\* RSync::new: no includes, no excludes
InitFilter ==
    /\ includeGlobs = <<>>
    /\ excludeGlobs = <<>>
    /\ probe = NoProbe

FilterUnused == InitFilter

----------------------------------------------------------------------------
(* ObjectClient::list: the pages of objects.list *)

MaxPages == 3         \* pages the bucket answers with
MaxItems == 1         \* items of one page

Items == 1..2
\* the nextPageToken of the i-th page, when it has one
PageToken(i) == MaxPages + 1 - i
FieldsItems == "items(name),nextPageToken"

\* ObjectPrefix::new: the request every listing of the endpoint starts from;
\* an Option that is not an integer is a sequence, <<>> for None
FirstRequest == [prefix |-> <<"prefix">>, fields |-> <<FieldsItems>>, page_token |-> None]

\* the page objects.list answers a request with: the first one without a
\* page token, and with a token the page after the one that returned it
ServerPage(request) ==
    IF request.page_token = None THEN pages[1]
    ELSE pages[1 + CHOOSE i \in 1..Len(pages) : pages[i].next_page_token = request.page_token]

\* a faulty new_state: the request is made anew around the token
new_state_default(state, next_token) ==
    [prefix |-> <<>>, fields |-> <<>>, page_token |-> next_token]

\* ObjectsListRequest { page_token: Some(next_token), ..state }
new_state(state, next_token) == [state EXCEPT !.page_token = next_token]

\* the closure of try_unfold on Some(state): one request, the items of its
\* page, and the state of the next call; an error ends the stream
ListPage(fails) ==
    /\ listState # <<>>
    /\ requests' = Append(requests, listState[1])
    /\ IF fails
       THEN /\ yielded' = Append(yielded, StreamErr)
            /\ listState' = <<>>
       ELSE LET objects == ServerPage(listState[1])
            IN  /\ yielded' = yielded \o objects.items
                /\ listState' = IF objects.next_page_token = None THEN <<>>
                                ELSE <<new_state(listState[1], objects.next_page_token)>>
    /\ UNCHANGED pages
    /\ UNCHANGED <<engineVars, tokenVars, filterVars, callVars, walkVars>>

\* the pages a bucket may hold: the last one has no token, no token is
\* returned twice, and a page may have no token before the last
PageLists ==
    UNION {{[i \in 1..n |-> [items |-> its[i],
                             next_page_token |-> IF more[i] THEN PageToken(i) ELSE None]] :
               its \in [1..n -> SeqsUpTo(Items, MaxItems)],
               more \in {m \in [1..n -> BOOLEAN] : ~m[n]}} : n \in 1..MaxPages}

\* ObjectClient::list is called
InitList ==
    /\ pages \in PageLists
    /\ listState = <<FirstRequest>>
    /\ requests = <<>>
    /\ yielded = <<>>

ListUnused ==
    /\ pages = <<>>
    /\ listState = <<>>
    /\ requests = <<>>
    /\ yielded = <<>>

----------------------------------------------------------------------------
(* The constructors of paths, prefixes and object names, applied to strings *)

MaxLen == 3           \* length of the strings given to the constructors

Chars == {"a", "/", "\\"}
Strings == SeqsUpTo(Chars, MaxLen)

\* the relative paths RelativePath::new makes of the strings
RelativePaths == {RelativePathNew(x).path : x \in {y \in Strings : RelativePathNew(y).ok}}

NoCall == [op |-> "none", args |-> <<>>]

\* RelativePath::new(path)
CallRelativePathNew(path) ==
    /\ call = NoCall
    /\ call' = [op |-> "RelativePath::new", args |-> <<path>>]
    /\ ret' = RelativePathNew(path)
    /\ UNCHANGED <<engineVars, tokenVars, filterVars, listVars, walkVars>>

\* ObjectPrefix::new(bucket, prefix), the stored prefix
CallObjectPrefixNew(prefix) ==
    /\ call = NoCall
    /\ call' = [op |-> "ObjectPrefix::new", args |-> <<prefix>>]
    /\ ret' = [prefix |-> ObjectPrefixNew(prefix)]
    /\ UNCHANGED <<engineVars, tokenVars, filterVars, listVars, walkVars>>

\* ObjectPrefix::new(bucket, prefix).as_object(name)
CallAsObject(prefix, name) ==
    /\ call = NoCall
    /\ call' = [op |-> "as_object", args |-> <<prefix, name>>]
    /\ ret' = as_object(ObjectPrefixNew(prefix), name)
    /\ UNCHANGED <<engineVars, tokenVars, filterVars, listVars, walkVars>>

\* ObjectPrefix::new(bucket, prefix).as_relative_path(name)
CallAsRelativePath(prefix, name) ==
    /\ call = NoCall
    /\ call' = [op |-> "as_relative_path", args |-> <<prefix, name>>]
    /\ ret' = as_relative_path(ObjectPrefixNew(prefix), name)
    /\ UNCHANGED <<engineVars, tokenVars, filterVars, listVars, walkVars>>

InitCall ==
    /\ call = NoCall
    /\ ret = <<>>

CallUnused == InitCall

----------------------------------------------------------------------------
(* StorageClient: one request and the result made of its response *)

MaxBody == 2          \* distinct response bodies 1..MaxBody

Host == "host"
Urls == {<<"b">>, <<"b", "o">>}
Statuses == {200, 204, 299, 300, 403, NOT_FOUND, 500}
Bodies == 1..MaxBody

\* what happens to one request: whether with_auth gets a token, whether
\* send() gets a response, the status of the response, and its body as text
\* (None when the body cannot be read)
Exchanges == [auth : BOOLEAN, sent : BOOLEAN, status : Statuses, text : Bodies \cup {None}]

\* the JSON of a successful response: a value of the expected type, bytes that
\* are not JSON of either shape, or an error-shaped document
Decodings == {"value", "invalid", "error"}

OkResult == [tag |-> "Ok", url |-> <<>>, value |-> None]
Err(tag) == [tag |-> tag, url |-> <<>>, value |-> None]

\* StorageClient::resolve_url: format!("{host}/{url}")
resolve_url(url) == <<Host>> \o url

\* with_auth(..).await?, send().await.map_err(..)?, success_response(..).await
with_auth_send(url, x, send_error) ==
    IF ~x.auth THEN Err("GcsTokenError")
    ELSE IF ~x.sent THEN Err(send_error)
    ELSE success_response(resolve_url(url), [status |-> x.status, text |-> x.text])

\* StorageClient::delete
client_delete(url, x) == with_auth_send(url, x, "GcsHttpDeleteError")

\* StorageClient::post
client_post(url, x) == with_auth_send(url, x, "GcsHttpPostError")

\* the multipart framing; a byte string is a sequence of pieces
MT_SEPARATOR == <<"--gcs-storage", "\n">>
MT_END_SEPARATOR == <<"\n", "--gcs-storage--">>
MT_CONTENT_TYPE == <<"Content-Type: application/octet-stream">>
MT_METADATA_TYPE == <<"Content-Type: application/json; charset=utf-8", "\n", "\n">>

\* the metadata of an upload and the chunks a source stream is made of
Metadatas == {"m1", "m2"}
Chunks == {<<"x">>, <<"y", "x">>}
MaxChunks == 2        \* chunks of a source stream
SourceStreams == UNION {[1..n -> Chunks] : n \in 0..MaxChunks}

\* serde_json::ser::to_vec(metadata)
to_vec(metadata) == <<"{", metadata, "}">>

\* a faulty body: the source stream is left out
mbody_no_chunks(part, body) == <<part>> \o <<MT_END_SEPARATOR>>

\* stream::iter([Ok(part)]).chain(body.into_stream()).chain(
\* stream::iter([Ok(MT_END_SEPARATOR)]))
mbody(part, body) == <<part>> \o body \o <<MT_END_SEPARATOR>>

\* the stream post_multipart hands to reqwest::Body::wrap_stream
multipart_body(metadata, body) ==
    LET json == to_vec(metadata)
        part == MT_SEPARATOR \o MT_METADATA_TYPE \o json \o <<"\n">>
                    \o MT_SEPARATOR \o MT_CONTENT_TYPE \o <<"\n", "\n">>
    IN  mbody(part, body)

\* StorageClient::post_multipart: the metadata is serialized first
client_post_multipart(url, serialized, x) ==
    IF ~serialized THEN Err("InvalidMetadata")
    ELSE with_auth_send(url, x, "GcsHttpPostMultipartError")

\* StorageClient::get_as_stream: Ok is the stream of the body
client_get_as_stream(url, x) == with_auth_send(url, x, "GcsHttpGetAsStreamError")

\* StorageClient::get_as_json: the successful response is decoded
client_get_as_json(url, x, decoded) ==
    LET r == with_auth_send(url, x, "GcsHttpJsonRequestError")
    IN  IF r.tag # "Ok" THEN r
        ELSE IF decoded = "invalid" THEN Err("GcsHttpJsonResponseError")
        ELSE IF decoded = "error"
        THEN [tag |-> "GcsUnexpectedJson", url |-> resolve_url(url), value |-> None]
        ELSE OkResult

CallDelete(url, x) ==
    /\ call = NoCall
    /\ call' = [op |-> "delete", args |-> <<url, x>>]
    /\ ret' = client_delete(url, x)
    /\ UNCHANGED <<engineVars, tokenVars, filterVars, listVars, walkVars>>

CallPost(url, x) ==
    /\ call = NoCall
    /\ call' = [op |-> "post", args |-> <<url, x>>]
    /\ ret' = client_post(url, x)
    /\ UNCHANGED <<engineVars, tokenVars, filterVars, listVars, walkVars>>

\* `request` is the body of the request when one is made: the metadata was
\* serialized and with_auth returned the request builder
CallPostMultipart(url, serialized, x, metadata, body) ==
    /\ call = NoCall
    /\ call' = [op |-> "post_multipart",
                args |-> <<url, x, serialized, metadata, body>>,
                request |-> IF serialized /\ x.auth
                            THEN <<multipart_body(metadata, body)>>
                            ELSE <<>>]
    /\ ret' = client_post_multipart(url, serialized, x)
    /\ UNCHANGED <<engineVars, tokenVars, filterVars, listVars, walkVars>>

CallGetAsStream(url, x) ==
    /\ call = NoCall
    /\ call' = [op |-> "get_as_stream", args |-> <<url, x>>]
    /\ ret' = client_get_as_stream(url, x)
    /\ UNCHANGED <<engineVars, tokenVars, filterVars, listVars, walkVars>>

CallGetAsJson(url, x, decoded) ==
    /\ call = NoCall
    /\ call' = [op |-> "get_as_json", args |-> <<url, x, decoded>>]
    /\ ret' = client_get_as_json(url, x, decoded)
    /\ UNCHANGED <<engineVars, tokenVars, filterVars, listVars, walkVars>>

----------------------------------------------------------------------------
(* FsClient::list: the walk of the directory tree below the base path *)

MaxDepth == 2         \* depth of the directory tree below the base path

\* FsPrefix.base_path, as path components
BasePath == <<"P">>

\* file and directory names; a backslash is an ordinary character of a name
EntryNames == {<<"a">>, <<"a", "\\", "a">>}

\* the paths below the base path, as sequences of names
TreePaths == UNION {[1..n -> EntryNames] : n \in 1..MaxDepth}

Parent(p) == SubSeq(p, 1, Len(p) - 1)

\* the finite directory trees: an entry exists only in a directory
Trees ==
    {t \in [TreePaths -> {"none", "file", "dir"}] :
        \A p \in TreePaths : (Len(p) > 1 /\ t[p] # "none") => t[Parent(p)] = "dir"}

\* the kind of the entry at an absolute path
KindOf(path) ==
    LET rel == SubSeq(path, Len(BasePath) + 1, Len(path))
    IN  IF rel \in TreePaths THEN tree[rel] ELSE "none"

\* tokio::fs::read_dir(path): the entries of the directory, entry.path()
read_dir(path) == {path \o <<n>> : n \in {m \in EntryNames : KindOf(path \o <<m>>) # "none"}}

\* the orders in which read_dir can hand out the entries
Orders(S) == {o \in [1..Cardinality(S) -> S] : \A i, j \in 1..Cardinality(S) : o[i] = o[j] => i = j}

RECURSIVE to_string_lossy(_)
\* Path::to_string_lossy: the components joined by the separator
to_string_lossy(path) ==
    IF path = <<>> THEN <<>>
    ELSE IF Len(path) = 1 THEN path[1]
    ELSE path[1] \o <<"/">> \o to_string_lossy(Tail(path))

\* FsPrefix::as_relative_path: strip_prefix(base_path).unwrap_or(name), then
\* RelativePath::new of the string
fs_prefix_as_relative_path(base_path, name) ==
    LET stripped == IF StartsWith(name, base_path)
                    THEN SubSeq(name, Len(base_path) + 1, Len(name))
                    ELSE name
    IN  RelativePathNew(to_string_lossy(stripped))

\* state.push(entry.path()) for each subdirectory, in the order read
push(state, dirs) == state \o dirs

\* one pull of the try_unfold: pop a directory, read it, push its
\* subdirectories, yield its other entries
WalkPull(order) ==
    /\ ~walkEnded
    /\ walkStack # <<>>
    /\ LET path == walkStack[Len(walkStack)]
           rest == SubSeq(walkStack, 1, Len(walkStack) - 1)
           is_dir(e) == KindOf(e) = "dir"
           is_file(e) == KindOf(e) # "dir"
           files == SelectSeq(order, is_file)
       IN  /\ order \in Orders(read_dir(path))
           /\ walkStack' = push(rest, SelectSeq(order, is_dir))
           /\ walked' = walked \o
                  [i \in 1..Len(files) |-> fs_prefix_as_relative_path(BasePath, files[i])]
    /\ UNCHANGED <<tree, walkEnded>>
    /\ UNCHANGED <<engineVars, tokenVars, filterVars, listVars, callVars>>

\* state.pop() is None: the stream ends
WalkEnd ==
    /\ ~walkEnded
    /\ walkStack = <<>>
    /\ walkEnded' = TRUE
    /\ UNCHANGED <<tree, walkStack, walked>>
    /\ UNCHANGED <<engineVars, tokenVars, filterVars, listVars, callVars>>

\* vec![self.prefix.base_path.to_owned()]
InitWalk ==
    /\ tree \in Trees
    /\ walkStack = <<BasePath>>
    /\ walked = <<>>
    /\ walkEnded = FALSE

WalkUnused ==
    /\ tree = [p \in TreePaths |-> "none"]
    /\ walkStack = <<>>
    /\ walked = <<>>
    /\ walkEnded = FALSE

----------------------------------------------------------------------------
(* The specifications *)

Init == (InitEntry \/ InitPipeline) /\ TokenUnused /\ FilterUnused /\ ListUnused /\ CallUnused /\ WalkUnused

Next ==
    \/ \E names \in SUBSET ObjectNames : Fetch(names)
    \/ \E r \in batch : PullSync(r)
    \/ \E r \in batch : PullDelete(r)
    \/ EndList
    \/ \E p \in RelPaths : SyncDestMeta(p, FALSE)
    \/ \E p \in RelPaths : SyncSrcMeta(p, FALSE)
    \/ \E p \in RelPaths : SyncSrcMtime(p, FALSE)
    \/ \E p \in RelPaths : CrcDest(p, FALSE)
    \/ \E p \in RelPaths : CrcSrc(p, FALSE)
    \/ \E p \in RelPaths : WriteRead(p, FALSE)
    \/ \E p \in RelPaths, now \in Ticks : WriteCreate(p, now)
    \/ \E p \in RelPaths, now \in Ticks : WriteDrain(p, now)
    \/ \E p \in RelPaths : WriteUpload(p, FALSE)
    \/ \E p \in RelPaths : DelExists(p, FALSE)
    \/ \E p \in RelPaths : DelDelete(p, FALSE)
    \/ NextRun

Spec == Init /\ [][Next]_vars

\* the consumer polls the buffered stream until it ends, and the runtime runs
\* every future that is in progress
SpecLive == Init /\ [][Next]_vars /\ WF_vars(Next)

InitTokenSpec == EngineUnused /\ InitToken /\ FilterUnused /\ ListUnused /\ CallUnused /\ WalkUnused

NextToken ==
    \/ \E r \in Requests : WithAuth(r)
    \/ \E r \in Requests : RefreshGetToken(r)
    \/ \E r \in Requests, lifetime \in Lifetimes : GeneratorReturn(r, lifetime)
    \/ \E r \in Requests : GeneratorFail(r)
    \/ \E r \in Requests : StoreToken(r)
    \/ Tick

SpecToken == InitTokenSpec /\ [][NextToken]_vars

InitFilterSpec == EngineUnused /\ TokenUnused /\ InitFilter /\ ListUnused /\ CallUnused /\ WalkUnused

NextFilter ==
    \/ \E globs \in GlobLists : WithIncludes(globs)
    \/ \E globs \in GlobLists : WithExcludes(globs)
    \/ \E path \in FilterPaths : ApplyFilter(path)

SpecFilter == InitFilterSpec /\ [][NextFilter]_vars

InitListSpec == EngineUnused /\ TokenUnused /\ FilterUnused /\ InitList /\ CallUnused /\ WalkUnused

NextList == \E fails \in BOOLEAN : ListPage(fails)

SpecList == InitListSpec /\ [][NextList]_vars

InitPathSpec == EngineUnused /\ TokenUnused /\ FilterUnused /\ ListUnused /\ InitCall /\ WalkUnused

NextPath ==
    \/ \E path \in Strings : CallRelativePathNew(path)
    \/ \E prefix \in Strings : CallObjectPrefixNew(prefix)
    \/ \E prefix \in Strings, name \in RelativePaths : CallAsObject(prefix, name)
    \/ \E prefix \in Strings, name \in Strings : CallAsRelativePath(prefix, name)

SpecPath == InitPathSpec /\ [][NextPath]_vars

InitWalkSpec == EngineUnused /\ TokenUnused /\ FilterUnused /\ ListUnused /\ CallUnused
                /\ InitWalk

\* the listing of an FS endpoint, pulled until it ends
NextWalk ==
    \/ \E path \in {BasePath \o p : p \in {<<>>} \cup TreePaths} :
          \E order \in Orders(read_dir(path)) : WalkPull(order)
    \/ WalkEnd

\* the consumer keeps pulling the stream
SpecWalk == InitWalkSpec /\ [][NextWalk]_vars /\ WF_vars(NextWalk)

\* the storage client: one request of any kind
NextHttp ==
    \/ \E url \in Urls, x \in Exchanges : CallDelete(url, x)
    \/ \E url \in Urls, x \in Exchanges : CallPost(url, x)
    \/ \E url \in Urls, x \in Exchanges, serialized \in BOOLEAN,
          metadata \in Metadatas, body \in SourceStreams :
          CallPostMultipart(url, serialized, x, metadata, body)
    \/ \E url \in Urls, x \in Exchanges : CallGetAsStream(url, x)
    \/ \E url \in Urls, x \in Exchanges, decoded \in Decodings :
          CallGetAsJson(url, x, decoded)

InitHttpSpec == EngineUnused /\ TokenUnused /\ FilterUnused /\ ListUnused /\ InitCall /\ WalkUnused

SpecHttp == InitHttpSpec /\ [][NextHttp]_vars

\* the engine in an environment where requests fail and files are removed by
\* others while a run is in progress; one run, its writes at the last tick
NextEnv ==
    \/ \E names \in SUBSET ObjectNames : Fetch(names)
    \/ \E r \in batch : PullSync(r)
    \/ \E r \in batch : PullDelete(r)
    \/ EndList
    \/ \E p \in RelPaths, fails \in BOOLEAN : SyncDestMeta(p, fails)
    \/ \E p \in RelPaths, fails \in BOOLEAN : SyncSrcMeta(p, fails)
    \/ \E p \in RelPaths, fails \in BOOLEAN : SyncSrcMtime(p, fails)
    \/ \E p \in RelPaths, fails \in BOOLEAN : CrcDest(p, fails)
    \/ \E p \in RelPaths, fails \in BOOLEAN : CrcSrc(p, fails)
    \/ \E p \in RelPaths, fails \in BOOLEAN : WriteRead(p, fails)
    \/ \E p \in RelPaths, now \in {MaxTick} : WriteCreate(p, now)
    \/ \E p \in RelPaths, now \in {MaxTick} : WriteDrain(p, now)
    \/ \E p \in RelPaths, fails \in BOOLEAN : WriteUpload(p, fails)
    \/ \E p \in RelPaths, fails \in BOOLEAN : DelExists(p, fails)
    \/ \E p \in RelPaths, fails \in BOOLEAN : DelDelete(p, fails)
    \/ \E name \in ObjectNames : RemovedSource(name)
    \/ \E name \in ObjectNames : RemovedDest(name)

InitEnv == (InitEntry \/ InitShared) /\ TokenUnused /\ FilterUnused /\ ListUnused /\ CallUnused /\ WalkUnused

SpecEnv == InitEnv /\ [][NextEnv]_vars

----------------------------------------------------------------------------
(* What the claims speak of *)

\* the relative paths an endpoint lists
PathsOf(ep, store) == {r.path : r \in {x \in list(ep, store, ObjectNames) : x.ok}}
SourcePaths == PathsOf(rsync.source, srcStore)
DestPaths == PathsOf(rsync.dest, dstStore)
AdmittedSourcePaths == {p \in SourcePaths : Filter(p)}

NoTaskError == \A i \in delivered : i.tag # "Err"

\* the operations the future of sync_entry(p) has issued, as <<side, op>>
SyncOps(p) == {<<o.side, o.op>> : o \in {x \in oplog : x.of = "sync" /\ x.path = p}}

SyncItems(p) == {i \in delivered : i.of = "sync" /\ i.path = p}

SyncStatuses == {i \in delivered : i.of = "sync" /\ i.tag \in SyncTags}
MirrorStatuses == {i \in delivered : i.of = "del" /\ i.tag \in MirrorTags}

Transfer == {<<"source", "read">>, <<"dest", "write">>}
CrcFetch == {<<"source", "get_crc32c">>, <<"dest", "get_crc32c">>}
MetaOnly == {<<"dest", "size_and_mt">>, <<"source", "size_and_mt">>}

\* the future t takes a step out of position pc
Leaves(t, pc) == task[t].pc = pc /\ task'[t].pc # pc

----------------------------------------------------------------------------
\* C1: after a mirror run that completed with no task error, the paths the
\* destination holds are exactly the source paths the filter admits.
C1_MirrorResult ==
    (mirrorMode /\ RunComplete /\ NoTaskError) => DestPaths = AdmittedSourcePaths

----------------------------------------------------------------------------
\* C2 as stated: every status of a second run is AlreadySynced, whatever the
\* endpoint kinds and restore_fs_mtime.
C2_SecondRunAlreadySynced ==
    run >= 2 => \A i \in SyncStatuses : i.tag = "AlreadySynced"

\* C2: in a second run every status is AlreadySynced and its future made no
\* transfer, except that a filesystem destination written without
\* restore_fs_mtime carries the time of the write and is Updated again for
\* "different size or mtime".
C2_SecondRunUnlessFsClock ==
    run >= 2 =>
        \A i \in SyncStatuses :
            \/ i.tag = "AlreadySynced" /\ SyncOps(i.path) \cap Transfer = {}
            \/ /\ rsync.dest.kind = "fs"
               /\ ~rsync.restore_fs_mtime
               /\ i.tag = "Updated"
               /\ i.reason = "different size or mtime"

\* a second run over a destination the first run wrote
C2_Witness ==
    /\ run = 2
    /\ RunComplete
    /\ max = 2
    /\ Lookup(dstStore, NameA).content = Lookup(srcStore, NameA).content
    /\ \E i \in SyncStatuses : i.tag = "AlreadySynced" /\ i.path = NameA

----------------------------------------------------------------------------
\* C3: once Created(p) or Updated{_, p} is delivered, get_crc32c(p) is present
\* on both endpoints and the two values are equal.
C3_WrittenCrcEqual ==
    \A i \in SyncStatuses :
        i.tag \in {"Created", "Updated"} =>
            LET s == get_crc32c(rsync.source, srcStore, i.path)
                d == get_crc32c(rsync.dest, dstStore, i.path)
            IN  /\ ~s.err /\ ~d.err
                /\ s.crc32c # None
                /\ d.crc32c = s.crc32c

C3_Witness ==
    /\ RunComplete
    /\ rsync.dest.kind = "gcs"
    /\ \E i \in SyncStatuses : i.tag = "Created"
    /\ \E i \in SyncStatuses : i.tag = "Updated"

----------------------------------------------------------------------------
\* C4: at most one call of the credential provider's get is in flight.
C4_SingleFlight == Cardinality(InGet) <= 1

----------------------------------------------------------------------------
\* C5 as stated: no Synced status is delivered after a Deleted or NotDeleted
\* status, whatever the bound of the driver.
C5_SyncedBeforeDeleted ==
    [][\A i \in delivered' \ delivered :
          (i.of = "sync" /\ i.tag \in SyncTags) => MirrorStatuses = {}]_vars

\* C5: a future of delete_extras is made only once the source listing has
\* ended, and with the bound 1 only once every future of sync has returned, so
\* that every Synced status is then delivered before any Deleted or NotDeleted.
C5_DeletesAfterListing ==
    (\E p \in RelPaths : task[DelTask(p)].pc # "idle") =>
        /\ phase # "sync_list"
        /\ max = 1 => \A q \in RelPaths : task[SyncTask(q)].pc \in {"idle", "done"}

C5_Witness ==
    /\ max = 1
    /\ mirrorMode
    /\ RunComplete
    /\ SyncStatuses # {}
    /\ MirrorStatuses # {}

----------------------------------------------------------------------------
\* C6: a listed destination path is deleted and reported Deleted exactly when
\* the source lacks it or the filter rejects it; otherwise it is kept and
\* reported NotDeleted.
C6_DeleteDecision ==
    \A i \in MirrorStatuses :
        /\ i.tag = "Deleted" <=> (i.path \notin SourcePaths \/ ~Filter(i.path))
        /\ i.tag = "Deleted" => i.path \notin DestPaths
        /\ i.tag = "NotDeleted" => i.path \in DestPaths

----------------------------------------------------------------------------
\* C7: filter admits a path iff (the include list is empty or some include
\* glob matches it) and (the exclude list is empty or no exclude glob matches).
C7_FilterSemantics ==
    probe.applied =>
        probe.result =
            ( /\ \/ includeGlobs = <<>>
                 \/ \E i \in 1..Len(includeGlobs) : GlobMatch(includeGlobs[i], probe.path)
              /\ \/ excludeGlobs = <<>>
                 \/ \A i \in 1..Len(excludeGlobs) : ~GlobMatch(excludeGlobs[i], probe.path) )

C7_Witness ==
    /\ probe.applied
    /\ probe.result
    /\ Len(includeGlobs) = 2
    /\ excludeGlobs # <<>>

----------------------------------------------------------------------------
\* C8: a path the filter rejects gets no future, no endpoint operation and no
\* status in sync; every path gets at most one future and at most one status.
C8_RejectedNeverVisited ==
    \A p \in RelPaths :
        LET t == SyncTask(p)
        IN  /\ ~filter(rsync.includes, rsync.excludes, p) =>
                /\ launched[t] = 0
                /\ task[t].pc = "idle"
                /\ {o \in oplog : o.of = "sync" /\ o.path = p} = {}
                /\ SyncItems(p) = {}
            /\ launched[t] <= 1
            /\ Cardinality(SyncItems(p)) <= launched[t]

C8_Witness ==
    /\ RunComplete
    /\ \E p \in SourcePaths : ~filter(rsync.includes, rsync.excludes, p)
    /\ \E q \in SourcePaths : launched[SyncTask(q)] = 1 /\ SyncItems(q) # {}

----------------------------------------------------------------------------
\* C9: when the destination reports neither size nor mtime the future fetches
\* the source's size_and_mt, enters write_entry with the source mtime, and its
\* Created(p) comes after exactly these operations, no get_crc32c among them,
\* the destination holding the source content.
C9_AbsentDestCreated ==
    [][\A p \in RelPaths :
          LET t == SyncTask(p)
              src == size_and_mt(rsync.source, srcStore, p)
              dst == size_and_mt(rsync.dest, dstStore, p)
          IN  /\ (Leaves(t, "s_dst_meta") /\ ~dst.err /\ dst.dt = None /\ dst.size = None)
                    => task'[t].pc = "s_src_mtime"
              /\ (Leaves(t, "s_src_mtime") /\ ~src.err)
                    => /\ task'[t].pc = "w_read"
                       /\ task'[t].mtime = src.dt
                       /\ task'[t].status = "Created"
              /\ (Item("Created", "", t) \in delivered' \ delivered)
                    => /\ SyncOps(p)' = MetaOnly \cup Transfer
                       /\ \A o \in oplog' :
                            (o.of = "sync" /\ o.path = p /\ o.op = "write") => o.arg = src.dt
                       /\ read(rsync.dest, dstStore', p).content
                            = read(rsync.source, srcStore, p).content
      ]_vars

C9_Witness ==
    /\ RunComplete
    /\ \E i \in SyncStatuses :
         /\ i.tag = "Created"
         /\ size_and_mt(rsync.source, srcStore, i.path).dt # None
         /\ SyncOps(i.path) \cap CrcFetch = {}

----------------------------------------------------------------------------
\* C10: when both endpoints report size and mtime, the mtimes fall in the same
\* second and the sizes are equal, the future returns AlreadySynced{"same mtime
\* and size"} having fetched the two size_and_mt and nothing else, and the
\* destination is left as it was.
C10_SameSecondAndSize ==
    [][\A p \in RelPaths :
          LET t == SyncTask(p)
              src == size_and_mt(rsync.source, srcStore, p)
              dst == size_and_mt(rsync.dest, dstStore, p)
          IN  /\ (Leaves(t, "s_dst_meta") /\ ~dst.err /\ dst.dt # None /\ dst.size # None)
                    => /\ task'[t].pc = "s_src_meta"
                       /\ task'[t].dest_dt = dst.dt
                       /\ task'[t].dest_size = dst.size
              /\ ( /\ Leaves(t, "s_src_meta")
                   /\ ~src.err /\ src.dt # None /\ src.size # None
                   /\ src.dt \div TicksPerSec = task[t].dest_dt \div TicksPerSec
                   /\ src.size = task[t].dest_size )
                    => /\ Item("AlreadySynced", "same mtime and size", t) \in delivered'
                       /\ task'[t].pc = "done"
                       /\ SyncOps(p)' = MetaOnly
                       /\ dstStore' = dstStore
      ]_vars

\* the two mtimes differ within one second
C10_Witness ==
    /\ rsync.source.kind = "fs"
    /\ rsync.dest.kind = "fs"
    /\ Lookup(srcStore, NameA).mt # Lookup(dstStore, NameA).mt
    /\ Item("AlreadySynced", "same mtime and size", SyncTask(NameA)) \in delivered
    /\ SyncOps(NameA) = MetaOnly

----------------------------------------------------------------------------
\* C11: when both endpoints report size and mtime and these differ in size or
\* in the second of the mtime, the future enters write_entry with the source
\* mtime, and its Updated{"different size or mtime"} comes after the two
\* size_and_mt and the transfer, the destination holding the source content.
C11_DifferentSizeOrMtime ==
    [][\A p \in RelPaths :
          LET t == SyncTask(p)
              src == size_and_mt(rsync.source, srcStore, p)
          IN  /\ ( /\ Leaves(t, "s_src_meta")
                   /\ ~src.err /\ src.dt # None /\ src.size # None
                   /\ \/ src.dt \div TicksPerSec # task[t].dest_dt \div TicksPerSec
                      \/ src.size # task[t].dest_size )
                    => /\ task'[t].pc = "w_read"
                       /\ task'[t].mtime = src.dt
                       /\ task'[t].status = "Updated"
                       /\ task'[t].reason = "different size or mtime"
                       /\ delivered' = delivered
              /\ (Item("Updated", "different size or mtime", t) \in delivered' \ delivered)
                    => /\ SyncOps(p)' = MetaOnly \cup Transfer
                       /\ \A o \in oplog' :
                            (o.of = "sync" /\ o.path = p /\ o.op = "write") => o.arg = src.dt
                       /\ read(rsync.dest, dstStore', p).content
                            = read(rsync.source, srcStore, p).content
      ]_vars

\* same size, mtimes in different seconds
C11_Witness ==
    /\ RunComplete
    /\ run = 1
    /\ Item("Updated", "different size or mtime", SyncTask(NameA)) \in delivered
    /\ Size(Lookup(srcStore, NameA).content) = Size(Lookup(dstStore, NameA).content)
    /\ rsync.dest.kind = "gcs"

----------------------------------------------------------------------------
\* C12 as stated: a source whose (second of mtime, size) does not match the
\* destination's sends the entry to the CRC comparison.
C12_MismatchGoesToCrc ==
    [][\A p \in RelPaths :
          LET t == SyncTask(p)
              src == size_and_mt(rsync.source, srcStore, p)
          IN  ( /\ Leaves(t, "s_src_meta")
                /\ ~src.err
                /\ ~ ( /\ src.dt # None /\ src.size # None
                       /\ src.dt \div TicksPerSec = task[t].dest_dt \div TicksPerSec
                       /\ src.size = task[t].dest_size ) )
                 => task'[t].pc = "c_dst_crc"
      ]_vars

\* C12: the destination having both size and mtime, the entry goes to the CRC
\* comparison exactly when the source does not report both; its status is then
\* AlreadySynced{"same crc32c"} with equal CRC32C values, or Updated for
\* "different crc32c" or "no dest crc32c".
C12_PartialSourceGoesToCrc ==
    [][\A p \in RelPaths :
          LET t == SyncTask(p)
              src == size_and_mt(rsync.source, srcStore, p)
          IN  /\ (Leaves(t, "s_src_meta") /\ ~src.err)
                    => (task'[t].pc = "c_dst_crc" <=> (src.dt = None \/ src.size = None))
              /\ \A i \in delivered' \ delivered :
                    ( /\ i.of = "sync" /\ i.path = p /\ i.tag \in SyncTags
                      /\ <<"dest", "get_crc32c">> \in SyncOps(p)' )
                    => \/ /\ i.tag = "AlreadySynced"
                          /\ i.reason = "same crc32c"
                          /\ get_crc32c(rsync.source, srcStore, p).crc32c
                               = get_crc32c(rsync.dest, dstStore, p).crc32c
                       \/ /\ i.tag = "Updated"
                          /\ i.reason \in {"different crc32c", "no dest crc32c"}
      ]_vars

\* a destination with size and mtime, a GCS source object without mtime
C12_Witness ==
    /\ RunComplete
    /\ run = 1
    /\ rsync.source.kind = "gcs"
    /\ Lookup(srcStore, NameA).mt = None
    /\ SyncOps(NameA) = MetaOnly \cup CrcFetch
    /\ Item("AlreadySynced", "same crc32c", SyncTask(NameA)) \in delivered

----------------------------------------------------------------------------
\* the future of sync_entry(p) has returned Err
Failed(t) == Item("Err", "StorageError", t) \in delivered

\* the write operations the future of sync_entry(p) has issued were given no mtime
WritesWithoutMtime(p) ==
    \A o \in oplog : (o.of = "sync" /\ o.path = p /\ o.op = "write") => o.arg = None

\* C13: on the CRC path, a destination without CRC32C makes the source be
\* transferred with no mtime and Updated{"no dest crc32c"} be emitted, the
\* source CRC32C not being fetched; a destination CRC32C equal to the source's
\* makes AlreadySynced{"same crc32c"} be emitted with no transfer; a
\* destination CRC32C that the source's differs from, or that the source has
\* none for, makes the source be transferred with no mtime and
\* Updated{"different crc32c"} be emitted.
C13_CrcPath ==
    [][\A p \in RelPaths :
         LET t == SyncTask(p)
             crc32c_dest == get_crc32c(rsync.dest, dstStore, p).crc32c
             crc32c_source == get_crc32c(rsync.source, srcStore, p).crc32c
         IN  /\ (Leaves(t, "c_dst_crc") /\ ~Failed(t)' /\ crc32c_dest = None) =>
                    /\ task'[t].pc = "w_read"
                    /\ task'[t].mtime = None
                    /\ task'[t].status = "Updated" /\ task'[t].reason = "no dest crc32c"
                    /\ <<"source", "get_crc32c">> \notin SyncOps(p)'
             /\ (Leaves(t, "c_dst_crc") /\ ~Failed(t)' /\ crc32c_dest # None) =>
                    /\ task'[t].pc = "c_src_crc"
                    /\ task'[t].crc32c_dest = crc32c_dest
             /\ (Leaves(t, "c_src_crc") /\ ~Failed(t)'
                   /\ task[t].crc32c_dest = crc32c_source) =>
                    /\ Item("AlreadySynced", "same crc32c", t) \in delivered'
                    /\ task'[t].pc = "done"
                    /\ SyncOps(p)' \cap Transfer = {}
                    /\ dstStore' = dstStore
             /\ (Leaves(t, "c_src_crc") /\ ~Failed(t)'
                   /\ task[t].crc32c_dest # crc32c_source) =>
                    /\ task'[t].pc = "w_read"
                    /\ task'[t].mtime = None
                    /\ task'[t].status = "Updated" /\ task'[t].reason = "different crc32c"
             /\ \A reason \in {"no dest crc32c", "different crc32c"} :
                    /\ (task[t].pc \in {"w_read", "w_create", "w_drain", "w_upload"}
                          /\ task[t].reason = reason /\ task'[t].pc = "done" /\ ~Failed(t)') =>
                            Item("Updated", reason, t) \in delivered'
                    /\ Item("Updated", reason, t) \in delivered =>
                            /\ Transfer \subseteq SyncOps(p)
                            /\ WritesWithoutMtime(p)
                    /\ Item("Updated", "no dest crc32c", t) \in delivered =>
                            <<"source", "get_crc32c">> \notin SyncOps(p)
    ]_vars

\* a destination whose CRC32C was gone when it was asked for has been updated
C13_Witness ==
    \E p \in RelPaths :
        /\ Item("Updated", "no dest crc32c", SyncTask(p)) \in delivered
        /\ <<"dest", "get_crc32c">> \in SyncOps(p)
        /\ Transfer \subseteq SyncOps(p)

----------------------------------------------------------------------------
\* size_and_mt reported exactly one of the two
ExactlyOne(r) == (r.dt = None) # (r.size = None)

\* C14: in sync_entry, a destination whose size_and_mt reports exactly one of
\* size and mtime, and a destination with both whose source lacks one, are
\* decided by the CRC path; so an object copied from GCS to GCS without mtime
\* metadata is AlreadySynced{"same crc32c"} on the next run.
C14_PartialGoesToCrc ==
    [][\A p \in RelPaths :
         LET t == SyncTask(p)
             dest == size_and_mt(rsync.dest, dstStore, p)
             source == size_and_mt(rsync.source, srcStore, p)
         IN  /\ (Leaves(t, "s_dst_meta") /\ ~dest.err /\ ExactlyOne(dest)) =>
                    /\ task'[t].pc = "c_dst_crc"
                    /\ UNCHANGED <<delivered, dstStore>>
             /\ (Leaves(t, "s_src_meta") /\ ~source.err
                   /\ (source.dt = None \/ source.size = None)) =>
                    /\ task'[t].pc = "c_dst_crc"
                    /\ UNCHANGED <<delivered, dstStore>>
             /\ (run = 2 /\ rsync.source.kind = "gcs" /\ rsync.dest.kind = "gcs"
                   /\ ~source.err /\ source.dt = None /\ source.size # None
                   /\ task[t].pc \notin {"idle", "done"} /\ task'[t].pc = "done") =>
                    /\ Item("AlreadySynced", "same crc32c", t) \in delivered'
                    /\ SyncOps(p)' \cap Transfer = {}
    ]_vars

\* second run from GCS to GCS: the object without mtime metadata, copied by the
\* first run, has been compared by CRC32C and found in sync
C14_Witness ==
    \E p \in RelPaths :
        /\ run = 2
        /\ rsync.source.kind = "gcs" /\ rsync.dest.kind = "gcs"
        /\ size_and_mt(rsync.source, srcStore, p).dt = None
        /\ ExactlyOne(size_and_mt(rsync.dest, dstStore, p))
        /\ Item("AlreadySynced", "same crc32c", SyncTask(p)) \in delivered
        /\ SyncOps(p) = {<<"dest", "size_and_mt">>} \cup CrcFetch

----------------------------------------------------------------------------
\* the future of sync_entry(p) ends its write with success
WriteReturns(t) ==
    /\ task[t].pc \in {"w_drain", "w_upload"}
    /\ task'[t].pc = "done"
    /\ Item("Err", "StorageError", t) \notin delivered'

\* C15: the write to a GCS destination is the multipart upload that carries the
\* mtime as metadata iff an mtime is given, and the media upload otherwise; the
\* write to an FS destination sets the file's modification time to the given
\* mtime iff an mtime is given and restore_fs_mtime is true, and otherwise leaves
\* it at the write time. restore_fs_mtime is false unless set, and a GCS
\* destination is written the same way whatever its value.
C15_WriteDispatch ==
    [][/\ \A source \in Endpoints, dest \in Endpoints :
            ~new(source, dest).restore_fs_mtime
       /\ \A p \in RelPaths :
            LET t == SyncTask(p)
                mtime == task[t].mtime
                name == as_object(rsync.dest.prefix, p).name
            IN  WriteReturns(t) =>
                  IF rsync.dest.kind = "gcs"
                  THEN /\ dstStore'[name].content = task[t].stream
                       /\ dstStore'[name].mt =
                             IF mtime # None THEN mtime \div TicksPerSec ELSE None
                  ELSE /\ dstStore'[p].content = task[t].stream
                       /\ IF mtime # None /\ rsync.restore_fs_mtime
                          THEN dstStore'[p].mt = mtime
                          ELSE \E o \in oplog' \ oplog :
                                  o = WriteTime(p, dstStore'[p].mt)
    ]_vars

\* an FS destination written with an mtime in hand that was not restored, the
\* source's mtime being older than every write time
C15_Witness ==
    \E p \in RelPaths :
        /\ rsync.dest.kind = "fs" /\ ~rsync.restore_fs_mtime
        /\ \E o \in oplog : /\ o.of = "sync" /\ o.path = p /\ o.op = "write"
                            /\ o.arg \notin {None, dstStore[p].mt}
        /\ \E i \in SyncItems(p) : i.tag \in {"Created", "Updated"}
        /\ Present(dstStore, p)

----------------------------------------------------------------------------
\* seconds between the current time and the cached token's expiry
Remaining == token.expiry - clock

\* C16: Token::is_valid is true iff strictly more than 30 seconds remain between
\* the current time and the token's expiry; with 30 seconds or less, and with
\* a token already expired, it is false. get_token hands the cached token to
\* the request in the first case and sends it to the credential provider in
\* the second.
C16_ValidIffMoreThanWindow ==
    [][\A r \in Requests :
         (req[r].pc = "call" /\ req'[r].pc # "call") =>
             /\ Remaining > ExpiryWindow =>
                    req'[r].pc = "done" /\ req'[r].access_token = token.access_token
             /\ Remaining <= ExpiryWindow => req'[r].pc = "in_get"
    ]_vars

\* a request was sent to the credential provider, and the cached token is
\* past its expiry
C16_Witness ==
    \E r \in Requests : req[r].pc = "in_get" /\ Remaining < 0

----------------------------------------------------------------------------
\* C17: when token_generator.get fails, the request that called it fails with
\* the credential error and holds no token, and the cached token is what it
\* was before the attempt; the cache always holds a token, and the request that
\* failed can only start over, with a get_token that sends it to the credential
\* provider again while the cached token is not valid.
C17_FailedRefreshKeepsCache ==
    [][\A r \in Requests :
         /\ (req[r].pc = "in_get" /\ req'[r].pc # "in_get" /\ req'[r].pc # "store") =>
                /\ req'[r].pc = "failed"
                /\ req'[r].access_token = None
                /\ token' = token
         /\ token'.access_token # None /\ token'.expiry # None
         /\ (req[r].pc = "failed" /\ req'[r] # req[r]) => req'[r].pc = "call"
         /\ (req[r].pc = "call" /\ req'[r].pc # "call"
               /\ token.expiry - ExpiryWindow <= clock) => req'[r].pc = "in_get"
    ]_vars

\* a refresh has failed, no token was ever stored, and the cache holds the
\* token it held before
C17_Witness ==
    \E r \in Requests :
        /\ req[r].pc = "failed"
        /\ issued = 0
        /\ token.access_token = 0
        /\ token.expiry - ExpiryWindow <= clock

----------------------------------------------------------------------------
\* the error items delivered for the future t
ErrItems(t) == {i \in delivered : i.tag = "Err" /\ i.of = t.kind /\ i.path = t.path}

\* the future t fails on this step: it returns Err, or it panics
TaskFails(t) ==
    /\ task[t].pc \notin {"idle", "done"}
    /\ task'[t] # task[t]
    /\ (ErrItems(t)' # ErrItems(t) \/ (panicked' /\ ~panicked))

\* C18: the failure of one entry's task, in sync or in the delete phase of
\* mirror, yields an error item for that entry and nothing else: the other
\* futures, the listing and the driver are as they were and go on, and when the
\* stream has ended every future that was created has emitted its item.
C18_FailureIsolated ==
    [][/\ \A t \in TaskIds :
            TaskFails(t) =>
                /\ \E i \in ErrItems(t)' : delivered' = delivered \cup {i} /\ i \notin delivered
                /\ task'[t].pc = "done"
                /\ \A u \in TaskIds \ {t} : task'[u] = task[u]
                /\ UNCHANGED <<phase, batch, fetched, launched, srcStore>>
                /\ Running'
       /\ (phase = "end" /\ InProgress = {}) =>
            \A u \in TaskIds :
                launched[u] > 0 => \E i \in delivered : i.of = u.kind /\ i.path = u.path
    ]_vars

----------------------------------------------------------------------------
\* C19: a failure inside an entry's task surfaces as the error item of that
\* entry and never aborts the process: when the source is an FS endpoint and
\* the file of the path cannot be opened at transfer time, write_entry's read
\* gives a stream that fails, the task returns Err for that path, and nothing
\* panics.
C19_OpenFailureIsErr ==
    [][/\ ~panicked'
       /\ \A p \in RelPaths :
            LET t == SyncTask(p)
            IN  (Leaves(t, "w_read") /\ rsync.source.kind = "fs" /\ ~Present(srcStore, p)) =>
                    /\ task'[t].stream = StreamErr
                    /\ Running'
    ]_vars

----------------------------------------------------------------------------
\* the answers of the three lookups of a GCS endpoint to one state of the bucket
Lookups(prefix, store, p, fails) ==
    [exists |-> gcs_exists_req(prefix, store, p, fails),
     get_crc32c |-> gcs_get_crc32c_req(prefix, store, p, fails),
     size_and_mt |-> gcs_size_and_mt_req(prefix, store, p, fails)]

\* the endpoints of the run that are buckets, each with its objects
Buckets ==
    {b \in {[ep |-> rsync.source, store |-> srcStore], [ep |-> rsync.dest, store |-> dstStore]} :
        b.ep.kind = "gcs"}

\* the future t did not return Err on this step
NoErrOn(t) == ErrItems(t)' = ErrItems(t)

\* C20: on a GCS endpoint, a 404 for the object is not an error of exists,
\* get_crc32c and size_and_mt but the answers false, absent and (absent,
\* absent); every other error of the request is the error of the operation.
\* The engine goes on from a 404 as from an absent object: delete_extras to
\* the delete, sync_entry to the creation, sync_entry_crc32c to the write.
C20_NotFoundAbsorbed ==
    [][/\ \A b \in Buckets, p \in RelPaths, fails \in BOOLEAN :
            LET name == as_object(b.ep.prefix, p).name
                response == object_response(b.store, name, fails)
                r == Lookups(b.ep.prefix, b.store, p, fails)
            IN  /\ response = "GcsResourceNotFound" =>
                      /\ ~Present(b.store, name) /\ ~fails
                      /\ ~r.exists.err /\ ~r.exists.found
                      /\ ~r.get_crc32c.err /\ r.get_crc32c.crc32c = None
                      /\ ~r.size_and_mt.err
                      /\ r.size_and_mt.dt = None /\ r.size_and_mt.size = None
                /\ response = "GcsUnexpectedResponse" =>
                      /\ fails
                      /\ r.exists.err /\ r.get_crc32c.err /\ r.size_and_mt.err
                /\ response = "Ok" =>
                      /\ ~r.exists.err /\ r.exists.found
                      /\ ~r.get_crc32c.err /\ r.get_crc32c.crc32c # None
                      /\ ~r.size_and_mt.err /\ r.size_and_mt.size # None
       /\ \A p \in RelPaths :
            /\ (rsync.source.kind = "gcs" /\ Leaves(DelTask(p), "d_exists")
                  /\ ~Present(srcStore, as_object(rsync.source.prefix, p).name)
                  /\ NoErrOn(DelTask(p))) =>
                    task'[DelTask(p)].pc = "d_delete"
            /\ (rsync.dest.kind = "gcs" /\ Leaves(SyncTask(p), "s_dst_meta")
                  /\ ~Present(dstStore, as_object(rsync.dest.prefix, p).name)
                  /\ NoErrOn(SyncTask(p))) =>
                    task'[SyncTask(p)].pc = "s_src_mtime"
            /\ (rsync.dest.kind = "gcs" /\ Leaves(SyncTask(p), "c_dst_crc")
                  /\ ~Present(dstStore, as_object(rsync.dest.prefix, p).name)
                  /\ NoErrOn(SyncTask(p))) =>
                    task'[SyncTask(p)].reason = "no dest crc32c"
            /\ \A t \in {SyncTask(p), DelTask(p)} :
                 (ErrItems(t) # {} /\ rsync.source.kind = "gcs" /\ rsync.dest.kind = "gcs") =>
                    \E o \in oplog : o.of = t.kind /\ o.path = p
    ]_vars

\* mirror from a bucket: the absence of one object made its extra be deleted,
\* and the failure of the lookup of another is the error of its task
C20_Witness ==
    \E p \in RelPaths, q \in RelPaths :
        /\ rsync.source.kind = "gcs"
        /\ ~Present(srcStore, as_object(rsync.source.prefix, p).name)
        /\ Item("Deleted", "", DelTask(p)) \in delivered
        /\ Item("Err", "StorageError", DelTask(q)) \in delivered
        /\ \A o \in oplog : (o.of = "del" /\ o.path = q) => o.op = "exists"

----------------------------------------------------------------------------
\* C21: the delete of a GCS endpoint is idempotent: the delete of a path whose
\* object does not exist (404) is a success, so two deletes of one path in a
\* row both succeed; any other failure of the DELETE request is the error of
\* the delete, and the bucket is as it was.
C21_DeleteIdempotent ==
    [][rsync.dest.kind = "gcs" =>
         \A p \in RelPaths :
            LET prefix == rsync.dest.prefix
                name == as_object(prefix, p).name
                first == gcs_delete_req(prefix, dstStore, p, FALSE)
                second == gcs_delete_req(prefix, first.store, p, FALSE)
                failed == gcs_delete_req(prefix, dstStore, p, TRUE)
                t == DelTask(p)
                answered(status) == DeleteStatus(p, status) \in oplog' \ oplog
            IN  /\ ~first.err /\ ~Present(first.store, name)
                /\ ~second.err /\ second.store = first.store
                /\ failed.err /\ failed.store = dstStore
                /\ Leaves(t, "d_delete") =>
                      /\ answered(NOT_FOUND) =>
                            /\ ~Present(dstStore, name)
                            /\ Item("Deleted", "", t) \in delivered'
                            /\ ErrItems(t)' = ErrItems(t)
                            /\ dstStore' = dstStore
                      /\ answered(200) =>
                            /\ Item("Deleted", "", t) \in delivered'
                            /\ ~Present(dstStore', name)
                      /\ answered(500) =>
                            /\ ErrItems(t)' # ErrItems(t)
                            /\ dstStore' = dstStore
                      /\ \E status \in {200, NOT_FOUND, 500} : answered(status)
    ]_vars

\* an extra of the bucket was gone when its DELETE was sent, and the task
\* reported it deleted
C21_Witness ==
    \E p \in RelPaths :
        /\ rsync.dest.kind = "gcs"
        /\ DeleteStatus(p, NOT_FOUND) \in oplog
        /\ Item("Deleted", "", DelTask(p)) \in delivered
        /\ ErrItems(DelTask(p)) = {}

----------------------------------------------------------------------------
\* the items of the first n pages, in page order
RECURSIVE ItemsOfPages(_)
ItemsOfPages(n) == IF n = 0 THEN <<>> ELSE ItemsOfPages(n - 1) \o pages[n].items

\* the first page that has no nextPageToken
LastPage == CHOOSE n \in 1..Len(pages) :
    /\ pages[n].next_page_token = None
    /\ \A i \in 1..(n - 1) : pages[i].next_page_token # None

ListFailed == \E i \in 1..Len(yielded) : yielded[i] = StreamErr

----------------------------------------------------------------------------
\* the string s with "/" for each backslash
Slashed(s, t) ==
    /\ Len(t) = Len(s)
    /\ \A i \in 1..Len(s) : t[i] = IF s[i] = "\\" THEN "/" ELSE s[i]

\* C23: for every string, RelativePath::new fails with EmptyRelativePathError,
\* as it does for "" and "/", or returns a path that is not empty, does not
\* begin with "/" and holds no backslash.
C23_RelativePathInvariant ==
    call.op = "RelativePath::new" =>
        /\ call.args[1] \in {<<>>, <<"/">>} => ~ret.ok
        /\ ret.ok =>
              /\ ret.path # <<>>
              /\ Head(ret.path) # "/"
              /\ \A i \in 1..Len(ret.path) : ret.path[i] # "\\"

C25_PrefixNormalized ==
    call.op = "ObjectPrefix::new" =>
        \/ ret.prefix = <<>>
        \/ Head(ret.prefix) # "/" /\ ret.prefix[Len(ret.prefix)] = "/"

\* the prefix the tests of ObjectPrefix expect object names to start with:
\* no leading "/", and a trailing "/" unless it is empty
NormalizedPrefix(prefix) ==
    LET x == StripPrefixOr(prefix, <<"/">>)
    IN  IF x = <<>> \/ EndsWith(x, <<"/">>) THEN x ELSE x \o <<"/">>

\* C26: on a GCS endpoint with prefix X, the object of a relative path p is
\* named by the normalized prefix followed by p, and the listing strips that
\* prefix again: as_relative_path(as_object(p).name) = p.  Stated for the
\* relative paths that do not start with "/".
C26_ObjectNameRoundTrip ==
    (call.op = "as_object" /\ Head(call.args[2]) # "/") =>
        LET prefix == call.args[1]
            p == call.args[2]
        IN  /\ ret.ok
            /\ ret.name = NormalizedPrefix(prefix) \o p
            /\ as_relative_path(ObjectPrefixNew(prefix), ret.name) = [ok |-> TRUE, path |-> p]

----------------------------------------------------------------------------
\* the futures the driver has pushed on its queue and that have not returned
Pending == {t \in TaskIds : task[t].pc \notin {"idle", "done"}}

\* the future of t returns in this step
Completes(t) == task[t].pc \notin {"idle", "done"} /\ task'[t].pc = "done"

\* C27: driven with the bound N, at most N entry tasks are in progress at any
\* moment, and a result reaches the consumer in the step its task completes:
\* the results are delivered in the order the tasks complete.
C27_BoundedCompletionOrder ==
    [][/\ Cardinality(Pending') <= max'
       /\ \A t \in TaskIds :
             Completes(t) <=>
                 \E i \in delivered' \ delivered : i.path = t.path /\ i.of = t.kind]_vars

\* two tasks are in progress at once under the bound 2, one result delivered
C27_Witness ==
    /\ max = 2
    /\ Cardinality(Pending) = 2
    /\ \E i \in delivered : i.tag \in SyncTags
    /\ \E p \in RelPaths : task[DelTask(p)].pc = "d_delete"

----------------------------------------------------------------------------
\* a request of the storage client got a response
Answered ==
    /\ call.op \in {"delete", "post", "post_multipart", "get_as_stream", "get_as_json"}
    /\ call.args[2].auth
    /\ call.args[2].sent
    /\ call.op = "post_multipart" => call.args[3]

\* the status is neither a success nor a 404
OtherStatus(status) == ~(200 <= status /\ status <= 299) /\ status # 404

\* what 2xx and 404 are mapped to, the same for every operation
SuccessAndNotFound ==
    LET url == <<Host>> \o call.args[1]
        status == call.args[2].status
    IN  /\ (200 <= status /\ status <= 299) =>
              /\ ret.tag \notin {"GcsResourceNotFound", "GcsUnexpectedResponse",
                                 "GcsHttpNoTextError"}
              /\ call.op # "get_as_json" => ret = OkResult
        /\ status = 404 =>
              ret = [tag |-> "GcsResourceNotFound", url |-> url, value |-> None]

\* C28 as stated: every other status is the UnexpectedResponse error carrying
\* the URL and the response body.
C28_StatusMapping ==
    Answered =>
        /\ SuccessAndNotFound
        /\ OtherStatus(call.args[2].status) =>
              /\ ret.tag = "GcsUnexpectedResponse"
              /\ ret.url = <<Host>> \o call.args[1]
              /\ call.args[2].text # None => ret.value = call.args[2].text

\* C28: every operation of the storage client maps the status of the response
\* the same way: 2xx is success, 404 is ResourceNotFound with the URL, and any
\* other status is UnexpectedResponse with the URL and the body when the body
\* can be read as text, and the HttpNoTextError when it cannot.
C28_StatusMappingReadableBody ==
    Answered =>
        LET url == <<Host>> \o call.args[1]
            status == call.args[2].status
            text == call.args[2].text
        IN  /\ SuccessAndNotFound
            /\ (OtherStatus(status) /\ text # None) =>
                  ret = [tag |-> "GcsUnexpectedResponse", url |-> url, value |-> text]
            /\ (OtherStatus(status) /\ text = None) => ret.tag = "GcsHttpNoTextError"

\* a DELETE answered 403 with a readable body
C28_Witness ==
    /\ call.op = "delete"
    /\ Answered
    /\ call.args[2].status = 403
    /\ ret.tag = "GcsUnexpectedResponse"
    /\ ret.value = call.args[2].text

----------------------------------------------------------------------------
\* the delete phase has listed the destination or started a delete on it
DeletePhaseStarted == \E o \in oplog : o.of = "del" /\ o.side = "dest"

\* no future of sync() is in progress
NoSyncInFlight == \A q \in RelPaths : task[SyncTask(q)].pc \in {"idle", "done"}

\* C29 as stated: whatever the bound, the destination is listed and deletes on
\* it start only once every sync task of the run has completed.
C29_DeletePhaseAfterSync ==
    (mirrorMode /\ DeletePhaseStarted) => NoSyncInFlight

\* C29: in a mirror run the destination is listed, and deletes on it start,
\* only once the source listing has ended and every sync task has been
\* started; with the bound 1 every sync task has then completed as well.
C29_DeletePhaseAfterSourceListing ==
    (mirrorMode /\ DeletePhaseStarted) =>
        /\ phase # "sync_list"
        /\ \A q \in AdmittedSourcePaths : task[SyncTask(q)].pc # "idle"
        /\ max = 1 => NoSyncInFlight

\* under the bound 1 the destination has been listed and a delete issued
\* after a sync task wrote its entry
C29_Witness ==
    /\ max = 1
    /\ mirrorMode
    /\ \E o \in oplog : o.of = "del" /\ o.side = "dest" /\ o.op = "delete"
    /\ \E o \in oplog : o.of = "sync" /\ o.side = "dest" /\ o.op = "write"

----------------------------------------------------------------------------
\* C30: within the task of one entry the steps are decide, then transfer if
\* needed, then emit: Created or Updated of p is emitted in the step in which
\* the destination write of p returns with success, after the metadata of the
\* destination was looked up and the source was read; AlreadySynced of p is
\* emitted with no read of the source for a transfer and no destination
\* write of p started.
C30_DecideTransferEmit ==
    [][\A p \in RelPaths : \A i \in delivered' \ delivered :
          (i.of = "sync" /\ i.path = p) =>
              /\ i.tag \in {"Created", "Updated"} =>
                    /\ task[SyncTask(p)].pc \in {"w_drain", "w_upload"}
                    /\ task'[SyncTask(p)].pc = "done"
                    /\ <<"dest", "size_and_mt">> \in SyncOps(p)
                    /\ <<"source", "read">> \in SyncOps(p)
                    /\ <<"dest", "write">> \in SyncOps(p)'
                    /\ Present(dstStore', p)
              /\ i.tag = "AlreadySynced" =>
                    /\ task[SyncTask(p)].pc \notin {"w_read", "w_create", "w_drain", "w_upload"}
                    /\ <<"dest", "size_and_mt">> \in SyncOps(p)'
                    /\ SyncOps(p)' \cap Transfer = {}]_vars

\* one entry was written and reported, another reported AlreadySynced with no
\* transfer
C30_Witness ==
    /\ \E p \in RelPaths :
          /\ \E i \in SyncItems(p) : i.tag \in {"Created", "Updated"}
          /\ <<"dest", "write">> \in SyncOps(p)
    /\ \E q \in RelPaths :
          /\ \E i \in SyncItems(q) : i.tag = "AlreadySynced"
          /\ SyncOps(q) \cap Transfer = {}

----------------------------------------------------------------------------
\* the cached token has more than the window left
CachedValid == token.expiry - ExpiryWindow > clock

\* C31: a request that reads the cache while the cached token is valid takes
\* that token as its bearer in one step: the credential provider is not
\* called, the cache is not written, no other request is touched; and the
\* step is open to every such request whatever the others are doing.
C31_ValidTokenFastPath ==
    [][\A r \in Requests :
         /\ (req[r].pc = "call" /\ CachedValid /\ req'[r] # req[r]) =>
                /\ req'[r].pc = "done"
                /\ req'[r].access_token = token.access_token
                /\ issued' = issued
                /\ token' = token
                /\ \A q \in Requests \ {r} : req'[q] = req[q]
         /\ (req[r].pc = "call" /\ CachedValid) => ENABLED RefreshGetToken(r)
         /\ req[r].pc = "done" => req'[r].pc \notin {"in_get", "store"}
    ]_vars

\* both requests took the first token while the other had entered
\* refresh_token too, and the credential provider was never called
C31_Witness ==
    /\ \A r \in Requests : req[r].pc = "done" /\ req[r].access_token = token.access_token
    /\ CachedValid
    /\ issued = 0
    /\ clock > 0

----------------------------------------------------------------------------
\* the non-directory entries below the base path
FilesBelow == {p \in TreePaths : tree[p] = "file"}

Injections(n, S) == {f \in [1..n -> S] : \A i, j \in 1..n : f[i] = f[j] => i = j}

\* C32: for every finite directory tree below the base path P read without
\* error, the listing of an FS endpoint ends, and it yields the relative path
\* (P stripped) of every non-directory entry at any depth exactly once and
\* never a directory.
C32_WalkYieldsEveryFileOnce ==
    /\ <>walkEnded
    /\ [](\E f \in Injections(Len(walked), FilesBelow) :
             \A i \in 1..Len(walked) :
                 walked[i] = [ok |-> TRUE, path |-> to_string_lossy(f[i])])
    /\ [](walkEnded => Len(walked) = Cardinality(FilesBelow))

RECURSIVE Flattened(_)
\* the bytes of a stream of chunks
Flattened(chunks) == IF chunks = <<>> THEN <<>> ELSE Head(chunks) \o Flattened(Tail(chunks))

\* a multipart upload made its request
MultipartSent == call.op = "post_multipart" /\ call.request # <<>>

\* C33: the body of a multipart upload is, in this order and each once: the
\* boundary line, the JSON content-type header and a blank line, the JSON of
\* the metadata, a newline, the boundary line, the octet-stream content-type
\* header and a blank line, every chunk of the source stream in its order, and
\* the closing boundary "\n--gcs-storage--"; the source chunks are the items
\* of the body between its first and its last, unchanged.
C33_MultipartLayout ==
    MultipartSent =>
        LET sent == call.request[1]
            metadata == call.args[4]
            body == call.args[5]
        IN  /\ Flattened(sent) =
                  <<"--gcs-storage", "\n",
                    "Content-Type: application/json; charset=utf-8", "\n", "\n",
                    "{", metadata, "}",
                    "\n",
                    "--gcs-storage", "\n",
                    "Content-Type: application/octet-stream", "\n", "\n">>
                  \o Flattened(body)
                  \o <<"\n", "--gcs-storage--">>
            /\ Len(sent) = Len(body) + 2
            /\ \A i \in 1..Len(body) : sent[i + 1] = body[i]

\* a source stream of two different chunks was uploaded
C33_Witness ==
    /\ MultipartSent
    /\ Len(call.args[5]) = MaxChunks
    /\ call.args[5][1] # call.args[5][2]
    /\ ret = OkResult

\* the operations that do not change an endpoint
ReadOnlyOps == {"list", "read", "exists", "size_and_mt", "get_crc32c"}

\* C34: no step of a sync or a mirror run changes the source, and every
\* operation issued against the source is one of list, read, exists,
\* size_and_mt and get_crc32c: never a write, never a delete.
C34_SourceReadOnly ==
    [][/\ srcStore' = srcStore
       /\ \A o \in oplog' : o.side = "source" => o.op \in ReadOnlyOps]_vars

\* a mirror run with two tasks at a time ended after it read an entry of the
\* source, wrote it, and deleted another entry at the destination
C34_Witness ==
    /\ RunComplete
    /\ mirrorMode
    /\ max = MaxN
    /\ \E o \in oplog : o.side = "source" /\ o.op = "read"
    /\ \E o \in oplog : o.side = "source" /\ o.op = "exists"
    /\ \E o \in oplog : o.side = "dest" /\ o.op = "write"
    /\ \E o \in oplog : o.side = "dest" /\ o.op = "delete"

\* the entry named n is an entry of the destination whose relative path is
\* not a path of the source listing that the filter admits
DestOnlyOrRejected(n) ==
    \E r \in list(rsync.dest, dstStore, {n}) : r.ok /\ r.path \notin AdmittedSourcePaths

\* C35: a sync run issues no delete at the destination, and no step of it
\* changes a destination entry whose path is not an admitted path of the
\* source listing: such an entry keeps its content and its metadata.
C35_SyncLeavesOthers ==
    [][~mirrorMode =>
          /\ \A o \in oplog' : ~(o.side = "dest" /\ o.op = "delete")
          /\ \A n \in ObjectNames : DestOnlyOrRejected(n) => dstStore'[n] = dstStore[n]
      ]_vars

\* C36: a task whose source stream carries an error returns that error and
\* leaves the destination as it was: none of its steps changes the
\* destination, so an existing entry keeps its content and an absent one
\* stays absent.
C36_FailedTransferLeavesDest ==
    [][\A p \in RelPaths :
          (task[SyncTask(p)].stream = StreamErr /\ task'[SyncTask(p)] # task[SyncTask(p)])
              => dstStore' = dstStore
      ]_vars

\* C37: the cache is never overwritten with a token the credential provider
\* handed out before the token it replaces (tokens are numbered in the order
\* they are handed out), so that with lifetimes that do not shrink the expiry
\* of the cached token never decreases.
C37_CacheNeverGoesBack ==
    [][token'.access_token >= token.access_token]_vars

----------------------------------------------------------------------------
\* source.exists(p) has answered the delete task of p with `arg`
Answer(log, p, arg) ==
    \E a \in log : a.of = "answer" /\ a.path = p /\ a.op = "exists" /\ a.arg = arg

\* the delete task of p has issued its delete at the destination
DeleteIssued(log, p) ==
    \E o \in log : o.of = "del" /\ o.path = p /\ o.side = "dest" /\ o.op = "delete"

----------------------------------------------------------------------------
\* a sync task has issued its write of p at the destination
WriteIssued(log, p) ==
    \E o \in log : o.of = "sync" /\ o.path = p /\ o.side = "dest" /\ o.op = "write"

\* the sync task of p is inside write_entry
Writing(p) == task[SyncTask(p)].pc \in {"w_read", "w_create", "w_drain", "w_upload"}

\* C39: in one mirror run no path is both written at the destination by a
\* sync task and deleted there by a delete task, and no delete is issued for
\* a path while the sync task of that path is writing it.
C39_NoWriteDeleteRace ==
    [][mirrorMode =>
          \A p \in RelPaths :
              /\ ~(WriteIssued(oplog', p) /\ DeleteIssued(oplog', p))
              /\ (DeleteIssued(oplog', p) /\ ~DeleteIssued(oplog, p)) => ~Writing(p)
      ]_vars

----------------------------------------------------------------------------
\* the statuses of the run: one Synced status for each admitted path of the
\* source listing and none for another path, one Deleted or NotDeleted for
\* each path the destination listing yielded
OneStatusEach ==
    \A p \in RelPaths :
        /\ launched[SyncTask(p)] = IF p \in AdmittedSourcePaths THEN 1 ELSE 0
        /\ Cardinality({i \in SyncStatuses : i.path = p}) = launched[SyncTask(p)]
        /\ launched[DelTask(p)] <= 1
        /\ Cardinality({i \in MirrorStatuses : i.path = p}) = launched[DelTask(p)]

\* the stream of the run has ended: both listings are exhausted and no future
\* is in progress
Terminated == phase = "end" /\ batch = {} /\ \A t \in TaskIds : task[t].pc \in {"idle", "done"}

\* C40: with finite listings a mirror run with any N in 1..MaxN terminates,
\* and when it has terminated with no operation error it has emitted one
\* Synced status for each admitted source path and one of Deleted and
\* NotDeleted for each path of the destination listing.
C40_MirrorTerminates ==
    /\ mirrorMode => <>Terminated
    /\ []((mirrorMode /\ Terminated /\ NoTaskError) => OneStatusEach)

\* a mirror run with two futures at a time has ended with a Synced, a Deleted
\* and a NotDeleted status
C40_Witness ==
    /\ mirrorMode
    /\ max = MaxN
    /\ Terminated
    /\ NoTaskError
    /\ SyncStatuses # {}
    /\ \E i, j \in MirrorStatuses : i.tag = "Deleted" /\ j.tag = "NotDeleted"

====
